---------------------------- MODULE Spec2Model ----------------------------
(***************************************************************************)
(* A model of go-pathlib: the Windows path grammar (package ntpath), the    *)
(* pure path value (PureWindowsPath) built on it, and the operations that   *)
(* the testable properties of the specification speak about.                *)
(*                                                                          *)
(* A path string is a sequence of one-character strings, so that the byte   *)
(* level algorithms of the source (and of the Go standard library routines  *)
(* they call: path/filepath Clean, Join, Match on GOOS=windows, Go 1.21+)   *)
(* are computed as the code computes them.                                  *)
(***************************************************************************)
EXTENDS Integers, Sequences, FiniteSets, TLC

VARIABLES pc, input, output

vars == <<pc, input, output>>

-----------------------------------------------------------------------------
(* Bounds of the model.                                                     *)

MaxLen == 4

\* longest segment when an operation takes two path strings
MaxSegLen == 3

\* most parts of a pattern and of a path given to the matching operations
MaxParts == 3

-----------------------------------------------------------------------------
(* Characters and strings.                                                  *)

BS == "\\"
FS == "/"

LowerLetters ==
  <<"a","b","c","d","e","f","g","h","i","j","k","l","m",
    "n","o","p","q","r","s","t","u","v","w","x","y","z">>
UpperLetters ==
  <<"A","B","C","D","E","F","G","H","I","J","K","L","M",
    "N","O","P","Q","R","S","T","U","V","W","X","Y","Z">>

IsLetter(c) == \E i \in 1..26 : c = LowerLetters[i] \/ c = UpperLetters[i]

ToLowerChar(c) ==
  IF \E i \in 1..26 : UpperLetters[i] = c
    THEN LowerLetters[CHOOSE i \in 1..26 : UpperLetters[i] = c]
  ELSE c
ToUpperChar(c) ==
  IF \E i \in 1..26 : LowerLetters[i] = c
    THEN UpperLetters[CHOOSE i \in 1..26 : LowerLetters[i] = c]
  ELSE c

\* strings.ToLower
ToLower(s) == [i \in 1..Len(s) |-> ToLowerChar(s[i])]

\* strings.EqualFold
EqualFold(s, t) == ToLower(s) = ToLower(t)

\* strings.HasPrefix / strings.HasSuffix
HasPrefix(s, p) == Len(s) >= Len(p) /\ SubSeq(s, 1, Len(p)) = p
HasSuffix(s, p) == Len(s) >= Len(p) /\ SubSeq(s, Len(s) - Len(p) + 1, Len(s)) = p

\* s[k:] of Go, k a 0-based offset
Drop(s, k) == SubSeq(s, k + 1, Len(s))
\* s[:k] of Go
Take(s, k) == SubSeq(s, 1, k)

\* strings.Count(s, c) for a one-character c
Count(s, c) == Cardinality({i \in 1..Len(s) : s[i] = c})

\* strings.ReplaceAll(s, a, b) for one-character a, b
ReplaceChar(s, a, b) == [i \in 1..Len(s) |-> IF s[i] = a THEN b ELSE s[i]]

\* os.IsPathSeparator on windows
IsPathSeparator(c) == c = BS \/ c = FS

\* the strings of length at most n over the alphabet A
Strings(A, n) == UNION {[1..k -> A] : k \in 0..n}

\* the position of the k-th sep in s; 0 before the first, Len(s) + 1 after
\* the last
SepPos(s, sep, k) ==
  IF k = 0 THEN 0
  ELSE IF k > Count(s, sep) THEN Len(s) + 1
  ELSE CHOOSE i \in 1..Len(s) :
         s[i] = sep /\ Cardinality({j \in 1..i : s[j] = sep}) = k

\* strings.Split(s, sep) for a one-character sep: always at least one piece
Split(s, sep) ==
  [k \in 1..(Count(s, sep) + 1) |->
     SubSeq(s, SepPos(s, sep, k - 1) + 1, SepPos(s, sep, k) - 1)]

\* strings.Join(parts, sep) for a one-character sep
RECURSIVE JoinStrings(_, _)
JoinStrings(parts, sep) ==
  IF Len(parts) = 0 THEN <<>>
  ELSE IF Len(parts) = 1 THEN parts[1]
  ELSE parts[1] \o <<sep>> \o JoinStrings(Tail(parts), sep)

-----------------------------------------------------------------------------
(* path/filepath on windows: volume names and Clean.                        *)

\* pathHasPrefixFold: s begins with prefix, ignoring case, all separators
\* equivalent, and the prefix ends at a component boundary of s
pathHasPrefixFold(s, prefix) ==
  /\ Len(s) >= Len(prefix)
  /\ \A i \in 1..Len(prefix) :
       IF IsPathSeparator(prefix[i]) THEN IsPathSeparator(s[i])
       ELSE ToUpperChar(prefix[i]) = ToUpperChar(s[i])
  /\ (Len(s) > Len(prefix) => IsPathSeparator(s[Len(prefix) + 1]))

\* uncLen: the volume ends before the second separator after the prefix
uncLen(path, prefixLen) ==
  IF \E i \in (prefixLen + 1)..Len(path) :
       /\ IsPathSeparator(path[i])
       /\ Cardinality({j \in (prefixLen + 1)..(i - 1) : IsPathSeparator(path[j])}) = 1
    THEN (CHOOSE i \in (prefixLen + 1)..Len(path) :
            /\ IsPathSeparator(path[i])
            /\ Cardinality({j \in (prefixLen + 1)..(i - 1) : IsPathSeparator(path[j])}) = 1) - 1
  ELSE Len(path)

\* the volume of a Local Device path: the prefix and the component after it
deviceLen(path) ==
  IF Len(path) = 3 THEN 3
  ELSE IF \E i \in 5..Len(path) : IsPathSeparator(path[i])
    THEN (CHOOSE i \in 5..Len(path) :
            IsPathSeparator(path[i]) /\ \A j \in 5..(i - 1) : ~IsPathSeparator(path[j])) - 1
  ELSE Len(path)

volumeNameLen(path) ==
  IF Len(path) >= 2 /\ path[2] = ":" THEN 2
  ELSE IF Len(path) = 0 \/ ~IsPathSeparator(path[1]) THEN 0
  ELSE IF pathHasPrefixFold(path, <<BS, BS, ".", BS, "U", "N", "C">>)
    THEN uncLen(path, 8)
  ELSE IF \/ pathHasPrefixFold(path, <<BS, BS, ".">>)
          \/ pathHasPrefixFold(path, <<BS, BS, "?">>)
          \/ pathHasPrefixFold(path, <<BS, "?", "?">>)
    THEN deviceLen(path)
  ELSE IF Len(path) >= 2 /\ IsPathSeparator(path[2]) THEN uncLen(path, 2)
  ELSE 0

\* lazybuf.append: the buffer stays unallocated (lazy) while the output is a
\* prefix of the input
LazyAppend(path, o, c) ==
  [out |-> Append(o.out, c),
   lazy |-> o.lazy /\ Len(o.out) < Len(path) /\ path[Len(o.out) + 1] = c]

\* the ".." case of Clean when it can backtrack: drop the last element, back
\* to the last separator or to dotdot
Backtrack(out, dotdot) ==
  Take(out, CHOOSE l \in dotdot..(Len(out) - 1) :
              /\ l = dotdot \/ IsPathSeparator(out[l + 1])
              /\ \A m \in (l + 1)..(Len(out) - 1) : ~IsPathSeparator(out[m + 1]))

\* where the path element that starts at r ends: the next separator, or the
\* end of the path
ElementEnd(path, r) ==
  CHOOSE e \in r..(Len(path) + 1) :
    /\ e = Len(path) + 1 \/ IsPathSeparator(path[e])
    /\ \A k \in r..(e - 1) : ~IsPathSeparator(path[k])

\* copy a real path element: lazybuf.append for each of its characters
CopyElement(path, o, element) ==
  [out |-> o.out \o element,
   lazy |-> /\ o.lazy
            /\ Len(o.out) + Len(element) <= Len(path)
            /\ SubSeq(path, Len(o.out) + 1, Len(o.out) + Len(element)) = element]

RECURSIVE CleanLoop(_, _, _, _, _)

\* the main loop of filepath.Clean: r is the next character to read, o the
\* output written so far, dotdot the length below which ".." cannot remove
CleanLoop(path, rooted, r, o, dotdot) ==
  IF r > Len(path) THEN o
  ELSE IF IsPathSeparator(path[r]) THEN CleanLoop(path, rooted, r + 1, o, dotdot)
  ELSE IF path[r] = "." /\ (r = Len(path) \/ IsPathSeparator(path[r + 1]))
    THEN CleanLoop(path, rooted, r + 1, o, dotdot)
  ELSE IF /\ path[r] = "." /\ path[r + 1] = "."
          /\ (r + 1 = Len(path) \/ IsPathSeparator(path[r + 2]))
    THEN IF Len(o.out) > dotdot
           THEN CleanLoop(path, rooted, r + 2,
                          [out |-> Backtrack(o.out, dotdot), lazy |-> o.lazy], dotdot)
         ELSE IF ~rooted
           THEN CleanLoop(path, rooted, r + 2,
                  LazyAppend(path,
                    LazyAppend(path,
                      IF Len(o.out) > 0 THEN LazyAppend(path, o, BS) ELSE o, "."), "."),
                          Len(o.out) + 2 + (IF Len(o.out) > 0 THEN 1 ELSE 0))
         ELSE CleanLoop(path, rooted, r + 2, o, dotdot)
  ELSE CleanLoop(path, rooted, ElementEnd(path, r),
         CopyElement(path,
           IF (rooted /\ Len(o.out) # 1) \/ (~rooted /\ Len(o.out) # 0)
             THEN LazyAppend(path, o, BS) ELSE o,
           SubSeq(path, r, ElementEnd(path, r) - 1)),
         dotdot)

\* postClean on windows: keep a relative result from turning into a drive
\* path (a ':' in its first element) or into a Root Local Device path
postClean(volLen, o) ==
  IF volLen # 0 \/ o.lazy THEN o.out
  ELSE IF \E i \in 1..Len(o.out) :
            o.out[i] = ":" /\ \A j \in 1..i : ~IsPathSeparator(o.out[j])
    THEN <<".", BS>> \o o.out
  ELSE IF Len(o.out) >= 3 /\ IsPathSeparator(o.out[1]) /\ o.out[2] = "?" /\ o.out[3] = "?"
    THEN <<BS, ".">> \o o.out
  ELSE o.out

\* the end of filepath.Clean: an empty output becomes "."
CleanFinish(original, volLen, path, o) ==
  ReplaceChar(Take(original, volLen)
              \o postClean(volLen, IF Len(o.out) = 0 THEN LazyAppend(path, o, ".") ELSE o),
              FS, BS)

\* filepath.Clean after the volume name, of length volLen, is known
CleanVolume(original, volLen, path) ==
  IF Len(path) = 0
    THEN IF volLen > 1 /\ IsPathSeparator(original[1]) /\ IsPathSeparator(original[2])
           THEN ReplaceChar(original, FS, BS)
         ELSE Append(original, ".")
  ELSE IF IsPathSeparator(path[1])
    THEN CleanFinish(original, volLen, path,
           CleanLoop(path, TRUE, 2, LazyAppend(path, [out |-> <<>>, lazy |-> TRUE], BS), 1))
  ELSE CleanFinish(original, volLen, path,
         CleanLoop(path, FALSE, 1, [out |-> <<>>, lazy |-> TRUE], 0))

\* filepath.Clean
filepathClean(original) ==
  CleanVolume(original, volumeNameLen(original), Drop(original, volumeNameLen(original)))

-----------------------------------------------------------------------------
(* package ntpath: Clean.                                                   *)

\* the removal of a trailing dot after a drive letter, "to prevent c:."
TrimDriveDot(path) ==
  IF Len(path) >= 2 /\ path[2] = ":" /\ HasSuffix(path, <<".">>)
    THEN Take(path, Len(path) - 1)
  ELSE path

\* a UNC root with exactly three separators gains a trailing one
EnsureUNCRoot(path) ==
  IF HasPrefix(path, <<BS, BS>>) /\ Count(path, BS) = 3 /\ ~HasSuffix(path, <<BS>>)
    THEN Append(path, BS)
  ELSE path

Clean(path) == TrimDriveDot(EnsureUNCRoot(ReplaceChar(filepathClean(path), FS, BS)))

-----------------------------------------------------------------------------
(* path/filepath on windows: Join of two elements.                          *)

\* strip the leading separators of an element that follows a separator
RECURSIVE StripLeadingSeparators(_)
StripLeadingSeparators(e) ==
  IF Len(e) > 0 /\ IsPathSeparator(e[1]) THEN StripLeadingSeparators(Tail(e)) ELSE e

\* the second element e, already stripped, after a first one ending in a separator
JoinAfterSeparator(a, e) ==
  IF Len(a) = 1 /\ HasPrefix(e, <<"?", "?">>) /\ (Len(e) = 2 \/ IsPathSeparator(e[3]))
    THEN a \o <<".", BS>> \o e
  ELSE a \o e

\* the string that Join builds from two elements before cleaning it
JoinElements(a, b) ==
  IF Len(a) = 0 THEN b
  ELSE IF IsPathSeparator(a[Len(a)]) THEN JoinAfterSeparator(a, StripLeadingSeparators(b))
  ELSE IF a[Len(a)] = ":" THEN a \o b
  ELSE a \o <<BS>> \o b

\* filepath.Join(a, b)
filepathJoin(a, b) ==
  IF Len(a) = 0 /\ Len(b) = 0 THEN <<>> ELSE filepathClean(JoinElements(a, b))

-----------------------------------------------------------------------------
(* package ntpath: Parts, Drive, Root, Anchor.                              *)

\* length of the match of ^\\\\[^\\]+\\[^\\]+\\ at the start of path, 0 if none:
\* the match ends at the second '\' after the leading two, and neither the
\* host nor the share is empty
regUNCLen(path) ==
  IF /\ HasPrefix(path, <<BS, BS>>)
     /\ \E j \in 6..Len(path) : \E i \in 4..(j - 2) :
          /\ path[i] = BS /\ path[j] = BS
          /\ \A k \in 3..(j - 1) : k # i => path[k] # BS
    THEN CHOOSE j \in 6..Len(path) : \E i \in 4..(j - 2) :
           /\ path[i] = BS /\ path[j] = BS
           /\ \A k \in 3..(j - 1) : k # i => path[k] # BS
  ELSE 0

\* (?i)^[A-Z]: matches
regDriveColon(path) == Len(path) >= 2 /\ IsLetter(path[1]) /\ path[2] = ":"

\* length of the match of (?i)^[A-Z]:\\? at the start of path, 0 if none
regDriveLen(path) ==
  IF ~regDriveColon(path) THEN 0
  ELSE IF Len(path) >= 3 /\ path[3] = BS THEN 3
  ELSE 2

\* the anchor, of length n, and the rest of the path split on '\'
SplitAfterAnchor(path, n) ==
  IF Len(path) = n THEN <<Take(path, n)>>
  ELSE <<Take(path, n)>> \o Split(Drop(path, n), BS)

\* Parts after the path is cleaned
PartsOfClean(path) ==
  IF regUNCLen(path) > 0 THEN SplitAfterAnchor(path, regUNCLen(path))
  ELSE IF regDriveLen(path) > 0 THEN SplitAfterAnchor(path, regDriveLen(path))
  ELSE IF HasPrefix(path, <<BS>>) THEN SplitAfterAnchor(path, 1)
  ELSE Split(path, BS)

Parts(p) == IF p = <<".">> THEN <<>> ELSE PartsOfClean(Clean(p))

\* strings.TrimSuffix
TrimSuffix(s, suffix) ==
  IF HasSuffix(s, suffix) THEN Take(s, Len(s) - Len(suffix)) ELSE s

\* Drive, from the parts of the path
DriveOfParts(parts) ==
  IF Len(parts) = 0 THEN <<>>
  ELSE IF HasPrefix(parts[1], <<BS, BS>>) THEN TrimSuffix(parts[1], <<BS>>)
  ELSE IF Len(parts[1]) >= 2 /\ parts[1][2] = ":" THEN TrimSuffix(parts[1], <<BS>>)
  ELSE <<>>

Drive(path) == DriveOfParts(Parts(path))

\* Root, from the parts of the path
RootOfParts(parts) ==
  IF Len(parts) = 0 THEN <<>>
  ELSE IF HasPrefix(parts[1], <<BS, BS>>) THEN <<BS>>
  ELSE IF Len(parts[1]) >= 2 /\ parts[1][2] = ":" /\ HasSuffix(parts[1], <<BS>>) THEN <<BS>>
  ELSE IF parts[1] = <<BS>> THEN <<BS>>
  ELSE <<>>

Root(path) == RootOfParts(Parts(path))

\* Anchor: Drive(path) + Root(path), both from the same Parts(path)
AnchorOfParts(parts) == DriveOfParts(parts) \o RootOfParts(parts)

Anchor(path) == AnchorOfParts(Parts(path))

-----------------------------------------------------------------------------
(* PureWindowsPath: construction. A path value is its string.               *)

\* one round of the loop of NewPureWindowsPath: merge the cleaned segment
\* seg into the accumulator path
MergeCleaned(path, seg) ==
  IF HasPrefix(seg, <<BS, BS>>) THEN seg
  ELSE IF regDriveColon(seg)
    THEN IF Len(seg) >= 3 /\ seg[3] = BS THEN seg
         ELSE IF HasPrefix(path, Take(seg, 2)) THEN filepathJoin(path, Drop(seg, 2))
         ELSE seg
  ELSE IF HasPrefix(seg, <<BS>>)
    THEN IF regDriveLen(path) = 3 THEN Take(path, 2) \o seg ELSE seg
  ELSE filepathJoin(path, seg)

RECURSIVE MergeSegments(_, _)
MergeSegments(path, segments) ==
  IF Len(segments) = 0 THEN path
  ELSE MergeSegments(MergeCleaned(path, Clean(segments[1])), Tail(segments))

\* NewPureWindowsPath(segments...)
New(segments) ==
  IF Len(segments) = 0 THEN <<".">>
  ELSE IF Len(segments) = 1 /\ (segments[1] = <<>> \/ segments[1] = <<".">>) THEN <<".">>
  ELSE Clean(MergeSegments(Clean(segments[1]), Tail(segments)))

\* p.Join(segments...)
Join(p, segments) == New(<<p>> \o segments)

\* p.Name(), from p.Parts() and p.Anchor()
NameOfParts(parts, anchor) ==
  IF Len(parts) = 0 THEN <<>>
  ELSE IF anchor # <<>> /\ Len(parts) = 1 THEN <<>>
  ELSE parts[Len(parts)]

Name(p) == NameOfParts(Parts(p), Anchor(p))

\* the string p.Parent() builds its result from
ParentString(parts, anchor) ==
  IF Len(parts) = 0 THEN <<".">>
  ELSE IF Len(parts) = 1
    THEN IF anchor # <<>> THEN parts[1] ELSE <<".">>
  ELSE IF anchor = <<>> THEN JoinStrings(Take(parts, Len(parts) - 1), BS)
  ELSE parts[1] \o JoinStrings(SubSeq(parts, 2, Len(parts) - 1), BS)

\* p.Parent()
Parent(p) == New(<<ParentString(Parts(p), Anchor(p))>>)

\* p.IsAbs()
IsAbs(p) == Drive(p) # <<>> /\ Root(p) # <<>>

-----------------------------------------------------------------------------
(* PureWindowsPath: IsRelTo and RelTo.                                      *)

\* IsRelTo on the lowered paths and anchors
IsRelToLowered(pPath, otherPath, pAnchor, otherAnchor, isWalkUp) ==
  IF pAnchor # <<>>
    THEN IF isWalkUp THEN pAnchor = otherAnchor
         ELSE HasPrefix(pPath, otherPath) /\ pAnchor = otherAnchor
  ELSE IF otherAnchor # <<>> THEN FALSE
  ELSE otherPath = <<".">> \/ HasPrefix(pPath, otherPath)

\* p.IsRelTo(other, walkUp)
IsRelTo(p, other, isWalkUp) ==
  IsRelToLowered(ToLower(p), ToLower(other),
                 ToLower(Anchor(p)), ToLower(Anchor(other)), isWalkUp)

\* the loop of RelTo that counts the common leading parts; it reads parts[i]
\* for every i below len(otherParts) until a difference, and indexing parts
\* past its end aborts the program (-1)
RECURSIVE CommonLength(_, _, _)
CommonLength(parts, otherParts, i) ==
  IF i > Len(otherParts) THEN i - 1
  ELSE IF i > Len(parts) THEN -1
  ELSE IF ~EqualFold(parts[i], otherParts[i]) THEN i - 1
  ELSE CommonLength(parts, otherParts, i + 1)

\* RelTo once the common length is known
RelToCommon(parts, otherParts, commonLength, isWalkUp) ==
  IF commonLength = -1 THEN [err |-> "panic", path |-> <<>>]
  ELSE IF ~isWalkUp THEN [err |-> "nil", path |-> New(Drop(parts, commonLength))]
  ELSE [err |-> "nil",
        path |-> New([i \in 1..(Len(otherParts) - commonLength) |-> <<".", ".">>]
                     \o Drop(parts, commonLength))]

RelToParts(parts, otherParts, isWalkUp) ==
  RelToCommon(parts, otherParts, CommonLength(parts, otherParts, 1), isWalkUp)

\* p.RelTo(other, walkUp): a path, the failure NotRelative, or an abort
RelTo(p, other, isWalkUp) ==
  IF ~IsRelTo(p, other, isWalkUp) THEN [err |-> "NotRelative", path |-> <<>>]
  ELSE RelToParts(Parts(p), Parts(other), isWalkUp)

-----------------------------------------------------------------------------
(* Clean applied once and then again to its own result.                     *)

InitClean ==
  /\ pc = "init"
  /\ input \in Strings({"c", ":", BS, FS, ".", "a"}, MaxLen)
  /\ output = <<>>

CleanOnce ==
  /\ pc = "init"
  /\ output' = <<Clean(input)>>
  /\ pc' = "cleaned"
  /\ UNCHANGED input

CleanAgain ==
  /\ pc = "cleaned"
  /\ output' = Append(output, Clean(output[1]))
  /\ pc' = "recleaned"
  /\ UNCHANGED input

NextClean == CleanOnce \/ CleanAgain

SpecClean == InitClean /\ [][NextClean]_vars

\* C1: Clean is idempotent: cleaning the result of Clean again gives the same
\* string, for every path string
C1_CleanIdempotent == pc = "recleaned" => output[2] = output[1]

-----------------------------------------------------------------------------
(* RelTo of two constructed paths, and the result joined back on the base.  *)

InitRelTo ==
  /\ pc = "init"
  /\ \E A \in {{"a", "A", ":", BS, "."}} :
       input \in Strings(A, MaxSegLen) \X Strings(A, MaxSegLen)
  /\ output = <<>>

\* p := New(input[1]); base := New(input[2])
BuildPaths ==
  /\ pc = "init"
  /\ output' = [p |-> New(<<input[1]>>), base |-> New(<<input[2]>>)]
  /\ pc' = "built"
  /\ UNCHANGED input

\* rel, err := p.RelTo(base, walkUp), beside p.IsRelTo(base, walkUp)
CallRelTo ==
  /\ pc = "built"
  /\ \E walkUp \in BOOLEAN :
       \E r \in {RelTo(output.p, output.base, walkUp)} :
         output' = [p |-> output.p, base |-> output.base, walkUp |-> walkUp,
                    isRel |-> IsRelTo(output.p, output.base, walkUp),
                    err |-> r.err, rel |-> r.path, joined |-> <<>>]
  /\ pc' = IF output'.err = "panic" THEN "aborted"
           ELSE IF output'.err = "nil" THEN "relative" ELSE "failed"
  /\ UNCHANGED input

\* base.Join(rel.String())
JoinBack ==
  /\ pc = "relative"
  /\ output' = [output EXCEPT !.joined = Join(output.base, <<output.rel>>)]
  /\ pc' = "joined"
  /\ UNCHANGED input

NextRelTo == BuildPaths \/ CallRelTo \/ JoinBack

SpecRelTo == InitRelTo /\ [][NextRelTo]_vars

\* C2: whenever p.IsRelTo(base) holds with walkUp = true, p.RelTo(base)
\* returns a path and no failure and does not abort, and base joined with
\* that path is p again, ignoring letter case
C2_RelativeRoundTrip ==
  (pc \in {"aborted", "failed", "relative", "joined"} /\ output.walkUp /\ output.isRel)
    => /\ output.err = "nil"
       /\ pc = "joined" => ToLower(output.joined) = ToLower(output.p)

-----------------------------------------------------------------------------
(* package ntpath: Match, the segment-wise glob match with "**".            *)

\* filepath.Match of one segment against one name on windows, from position
\* i of the pattern and j of the name: '*' matches any run of characters
\* other than '\', '?' one such character, any other character itself.
\* Character classes are not modelled: no alphabet below holds '['.
RECURSIVE GlobFrom(_, _, _, _)
GlobFrom(pattern, name, i, j) ==
  IF i > Len(pattern) THEN j > Len(name)
  ELSE IF pattern[i] = "*"
    THEN \/ GlobFrom(pattern, name, i + 1, j)
         \/ j <= Len(name) /\ name[j] # BS /\ GlobFrom(pattern, name, i, j + 1)
  ELSE IF j > Len(name) THEN FALSE
  ELSE IF pattern[i] = "?" THEN name[j] # BS /\ GlobFrom(pattern, name, i + 1, j + 1)
  ELSE pattern[i] = name[j] /\ GlobFrom(pattern, name, i + 1, j + 1)

filepathMatch(pattern, name) == GlobFrom(pattern, name, 1, 1)

GlobStar == <<"*", "*">>

\* the recursion of Match without its cache ("the original logic"), on the
\* 0-based indices of the source
RECURSIVE MatchPlain(_, _, _, _)
MatchPlain(patternParts, pathParts, patternIdx, pathIdx) ==
  IF patternIdx = Len(patternParts) THEN pathIdx = Len(pathParts)
  ELSE IF patternParts[patternIdx + 1] = GlobStar
    THEN \E currentPathPos \in pathIdx..Len(pathParts) :
           MatchPlain(patternParts, pathParts, patternIdx + 1, currentPathPos)
  ELSE IF pathIdx >= Len(pathParts) THEN FALSE
  ELSE IF ~filepathMatch(patternParts[patternIdx + 1], pathParts[pathIdx + 1]) THEN FALSE
  ELSE MatchPlain(patternParts, pathParts, patternIdx + 1, pathIdx + 1)

\* a cache key that forgets the path index
MemoKeyPatternOnly(patternIdx, pathIdx) == <<patternIdx, 0>>

\* key := [2]int{patternIdx, pathIdx}
MemoKey(patternIdx, pathIdx) == <<patternIdx, pathIdx>>

\* the deferred memo[key] = res
MemoStore(key, r) ==
  [res |-> r.res,
   memo |-> [k \in DOMAIN r.memo \cup {key} |-> IF k = key THEN r.res ELSE r.memo[k]]]

RECURSIVE MatchMemo(_, _, _, _, _)
RECURSIVE MatchBody(_, _, _, _, _)
RECURSIVE MatchStarLoop(_, _, _, _, _)
RECURSIVE MatchStarStep(_, _, _, _, _)

\* the closure match(patternIdx, pathIdx) with the cache memo threaded
\* through: the result and the cache after the call
MatchMemo(patternParts, pathParts, patternIdx, pathIdx, memo) ==
  IF MemoKey(patternIdx, pathIdx) \in DOMAIN memo
    THEN [res |-> memo[MemoKey(patternIdx, pathIdx)], memo |-> memo]
  ELSE MemoStore(MemoKey(patternIdx, pathIdx),
                 MatchBody(patternParts, pathParts, patternIdx, pathIdx, memo))

MatchBody(patternParts, pathParts, patternIdx, pathIdx, memo) ==
  IF patternIdx = Len(patternParts)
    THEN [res |-> pathIdx = Len(pathParts), memo |-> memo]
  ELSE IF patternParts[patternIdx + 1] = GlobStar
    THEN MatchStarLoop(patternParts, pathParts, patternIdx, pathIdx, memo)
  ELSE IF pathIdx >= Len(pathParts) THEN [res |-> FALSE, memo |-> memo]
  ELSE IF ~filepathMatch(patternParts[patternIdx + 1], pathParts[pathIdx + 1])
    THEN [res |-> FALSE, memo |-> memo]
  ELSE MatchMemo(patternParts, pathParts, patternIdx + 1, pathIdx + 1, memo)

\* the loop over currentPathPos of a "**" segment
MatchStarLoop(patternParts, pathParts, patternIdx, currentPathPos, memo) ==
  IF currentPathPos > Len(pathParts) THEN [res |-> FALSE, memo |-> memo]
  ELSE MatchStarStep(patternParts, pathParts, patternIdx, currentPathPos,
         MatchMemo(patternParts, pathParts, patternIdx + 1, currentPathPos, memo))

MatchStarStep(patternParts, pathParts, patternIdx, currentPathPos, r) ==
  IF r.res THEN r
  ELSE MatchStarLoop(patternParts, pathParts, patternIdx, currentPathPos + 1, r.memo)

\* the parts Match splits a pattern or a path into
SlashParts(s) == Split(ReplaceChar(s, BS, FS), FS)

\* ntpath.Match(pattern, path)
Match(pattern, path) ==
  MatchMemo(SlashParts(pattern), SlashParts(path), 0, 0, [k \in {} |-> FALSE]).res

-----------------------------------------------------------------------------
(* Match applied to patterns and paths built from a few segments.           *)

\* the sequences of 1..n elements of S
Lists(S, n) == UNION {[1..k -> S] : k \in 1..n}

InitMatch ==
  /\ pc = "init"
  /\ \E patSep \in {BS, FS}, pathSep \in {BS, FS} :
       \E pat \in Lists({GlobStar, <<"*">>, <<"a">>, <<"?", "b">>}, MaxParts),
          path \in Lists({<<"a">>, <<"a", "b">>}, MaxParts) :
         input = [pattern |-> JoinStrings(pat, patSep), path |-> JoinStrings(path, pathSep)]
  /\ output = <<>>

\* Match(pattern, path), beside the recursion without the cache
CallMatch ==
  /\ pc = "init"
  /\ output' = [run |-> MatchMemo(SlashParts(input.pattern), SlashParts(input.path),
                                  0, 0, [k \in {} |-> FALSE]),
                plain |-> MatchPlain(SlashParts(input.pattern), SlashParts(input.path), 0, 0)]
  /\ pc' = "matched"
  /\ UNCHANGED input

NextMatch == CallMatch

SpecMatch == InitMatch /\ [][NextMatch]_vars

\* the numbers of leading segments of the path that the first i pattern
\* segments can consume, left to right: a segment other than "**" takes
\* exactly one segment, which it glob-matches, a "**" takes zero or more
RECURSIVE Consumed(_, _, _)
Consumed(patternParts, pathParts, i) ==
  IF i = 0 THEN {0}
  ELSE IF patternParts[i] = GlobStar
    THEN {k \in 0..Len(pathParts) :
            \E j \in Consumed(patternParts, pathParts, i - 1) : j <= k}
  ELSE {k \in 1..Len(pathParts) :
          /\ k - 1 \in Consumed(patternParts, pathParts, i - 1)
          /\ filepathMatch(patternParts[i], pathParts[k])}

\* C3: Match returns true exactly when the segments of the path can be
\* consumed left to right, one per pattern segment other than "**" and zero
\* or more per "**", pattern and path ending together; the memoized
\* recursion ends, caching only pairs of indices within the two lists, and
\* gives the result of the recursion without the cache
C3_MatchIsSegmentConsumption ==
  pc = "matched" =>
    /\ output.run.res = output.plain
    /\ output.run.res =
         (Len(SlashParts(input.path)) \in
            Consumed(SlashParts(input.pattern), SlashParts(input.path),
                     Len(SlashParts(input.pattern))))
    /\ DOMAIN output.run.memo \subseteq
         (0..Len(SlashParts(input.pattern))) \X (0..Len(SlashParts(input.path)))

\* a pattern with two "**" segments matches a path of three segments
C3_Witness ==
  /\ pc = "matched"
  /\ output.run.res
  /\ Len(SlashParts(input.path)) = 3
  /\ Cardinality({i \in 1..Len(SlashParts(input.pattern)) :
                    SlashParts(input.pattern)[i] = GlobStar}) = 2
  /\ Len(SlashParts(input.pattern)) = 3

-----------------------------------------------------------------------------
(* PureWindowsPath: FullMatch and Match.                                    *)

\* strings.ToLower unless the call is case sensitive
LowerUnless(caseSensitive, s) == IF caseSensitive THEN s ELSE ToLower(s)

\* p.FullMatch(pattern, caseSensitive)
FullMatch(p, pattern, caseSensitive) ==
  Match(Clean(LowerUnless(caseSensitive, pattern)), LowerUnless(caseSensitive, p))

\* the loop of p.Match over i = len(patternParts)-1 .. 0, 0-based as in the
\* source: patternParts[i] is matched against parts[len(parts)-1-i]
RECURSIVE MatchFromRight(_, _, _)
MatchFromRight(patternParts, parts, i) ==
  IF i < 0 THEN TRUE
  ELSE IF ~filepathMatch(patternParts[i + 1], parts[Len(parts) - i]) THEN FALSE
  ELSE MatchFromRight(patternParts, parts, i - 1)

\* p.Match once the parts of the receiver and of a relative pattern are known
PathMatchParts(parts, patternParts) ==
  IF Len(parts) < Len(patternParts) THEN FALSE
  ELSE MatchFromRight(patternParts, parts, Len(patternParts) - 1)

\* p.Match once patternPath is built from the pattern
PathMatchPattern(p, pattern, patternPath, caseSensitive) ==
  IF IsAbs(patternPath) \/ Drive(patternPath) # <<>>
    THEN FullMatch(p, pattern, caseSensitive)
  ELSE PathMatchParts(Parts(p), Parts(patternPath))

\* p.Match(pattern, caseSensitive); the lowered copy of the receiver's string
\* that the source makes is not read again
PathMatch(p, pattern, caseSensitive) ==
  PathMatchPattern(p, LowerUnless(caseSensitive, pattern),
                   New(<<LowerUnless(caseSensitive, pattern)>>), caseSensitive)

-----------------------------------------------------------------------------
(* FullMatch and Match applied to receivers and patterns of a few parts.    *)

\* the strings made of a prefix and up to n segments separated by '/'
PathStrings(prefixes, segments, n) ==
  prefixes \cup {pre \o JoinStrings(l, FS) : pre \in prefixes, l \in Lists(segments, n)}

InitPathMatch ==
  /\ pc = "init"
  /\ input \in
       [path : PathStrings({<<>>, <<FS>>, <<"c", ":", FS>>},
                           {<<"a">>, <<"A">>, <<"b">>}, MaxParts),
        pattern : PathStrings({<<>>, <<"c", ":", FS>>},
                              {<<"a">>, <<"b">>, <<"*">>}, MaxParts)]
  /\ output = <<>>

\* p := NewPureWindowsPath(path)
BuildReceiver ==
  /\ pc = "init"
  /\ output' = [p |-> New(<<input.path>>)]
  /\ pc' = "built"
  /\ UNCHANGED input

\* p.FullMatch(pattern, caseSensitive)
CallFullMatch ==
  /\ pc = "built"
  /\ \E caseSensitive \in BOOLEAN :
       output' = [p |-> output.p, caseSensitive |-> caseSensitive,
                  res |-> FullMatch(output.p, input.pattern, caseSensitive)]
  /\ pc' = "fullmatched"
  /\ UNCHANGED input

\* p.Match(pattern, caseSensitive)
CallPathMatch ==
  /\ pc = "built"
  /\ \E caseSensitive \in BOOLEAN :
       output' = [p |-> output.p, caseSensitive |-> caseSensitive,
                  res |-> PathMatch(output.p, input.pattern, caseSensitive)]
  /\ pc' = "matched"
  /\ UNCHANGED input

NextPathMatch == BuildReceiver \/ CallFullMatch \/ CallPathMatch

SpecPathMatch == InitPathMatch /\ [][NextPathMatch]_vars

\* the pattern parts glob-match the receiver's parts of the same position
\* when the two lists are aligned at their right ends
RightAligned(patternParts, parts) ==
  /\ Len(parts) >= Len(patternParts)
  /\ \A i \in 1..Len(patternParts) :
       filepathMatch(patternParts[i], parts[Len(parts) - Len(patternParts) + i])

\* C4: Match with a pattern that has no drive is a suffix match: it is true
\* exactly when the receiver has at least as many parts as the pattern and,
\* the two lists aligned at their right ends, every pattern part
\* glob-matches the receiver's part of the same position (stated for the
\* case-sensitive calls, where letter case plays no part)
C4_MatchIsSuffixMatch ==
  (pc = "matched" /\ output.caseSensitive /\ Drive(New(<<input.pattern>>)) = <<>>)
    => output.res = RightAligned(Parts(New(<<input.pattern>>)), Parts(output.p))

\* no wildcard in the pattern
IsLiteral(pattern) == Count(pattern, "*") = 0 /\ Count(pattern, "?") = 0

\* C5: without caseSensitive, FullMatch and Match give the result they give
\* on the lowered receiver and pattern; with caseSensitive, a literal pattern
\* that differs from the receiver in letter case only does not match
C5_CaseInsensitiveByDefault ==
  /\ (pc = "fullmatched" /\ ~output.caseSensitive)
       => output.res = FullMatch(New(<<ToLower(input.path)>>), ToLower(input.pattern), FALSE)
  /\ (pc = "matched" /\ ~output.caseSensitive)
       => output.res = PathMatch(New(<<ToLower(input.path)>>), ToLower(input.pattern), FALSE)
  /\ (/\ pc \in {"fullmatched", "matched"} /\ output.caseSensitive
      /\ IsLiteral(input.pattern)
      /\ New(<<input.pattern>>) # output.p
      /\ ToLower(New(<<input.pattern>>)) = ToLower(output.p))
       => ~output.res

-----------------------------------------------------------------------------
(* NewPureWindowsPath and Join applied to two segments.                     *)

InitNew ==
  /\ pc = "init"
  /\ \E S \in {PathStrings({<<>>, <<FS>>, <<"c", ":">>, <<"C", ":">>, <<"c", ":", FS>>,
                             <<"d", ":">>, <<FS, FS, "s", FS, "h", FS>>},
                            {<<"a">>, <<".", ".">>}, MaxParts)} :
       input \in S \X S
  /\ output = <<>>

\* acc := NewPureWindowsPath(input[1])
BuildAccumulator ==
  /\ pc = "init"
  /\ output' = [acc |-> New(<<input[1]>>)]
  /\ pc' = "built"
  /\ UNCHANGED input

\* NewPureWindowsPath(input[1], input[2])
CallNew ==
  /\ pc = "built"
  /\ output' = [acc |-> output.acc, res |-> New(<<input[1], input[2]>>)]
  /\ pc' = "new"
  /\ UNCHANGED input

\* acc.Join(input[2])
CallJoin ==
  /\ pc = "built"
  /\ output' = [acc |-> output.acc, res |-> Join(output.acc, <<input[2]>>)]
  /\ pc' = "joined"
  /\ UNCHANGED input

NextNew == BuildAccumulator \/ CallNew \/ CallJoin

SpecNew == InitNew /\ [][NextNew]_vars

\* the kinds of a cleaned segment
IsUNCAbsolute(seg) == HasPrefix(seg, <<BS, BS>>)
IsDriveAbsolute(seg) == regDriveColon(seg) /\ Len(seg) >= 3 /\ seg[3] = BS
IsDriveRelative(seg) == regDriveColon(seg) /\ ~IsDriveAbsolute(seg)
IsRootlessAbsolute(seg) == HasPrefix(seg, <<BS>>) /\ ~IsUNCAbsolute(seg)

\* a string and a relative string put together with a separator where one
\* is needed
Concatenated(acc, rel) ==
  IF acc[Len(acc)] = ":" \/ acc[Len(acc)] = BS THEN acc \o rel ELSE acc \o <<FS>> \o rel

\* C6: New folds its segments: a UNC-absolute or drive-absolute segment
\* replaces the accumulator; a drive-relative segment X:rest is appended
\* (as rest) when the accumulator is on drive X and replaces it otherwise;
\* any other relative segment is joined lexically; no segment, or a single
\* empty or "." segment, gives "."
C6_NewFoldsSegments ==
  /\ New(<<>>) = <<".">>
  /\ (pc = "built" /\ input[1] \in {<<>>, <<".">>}) => output.acc = <<".">>
  /\ pc = "new" =>
       IF IsUNCAbsolute(Clean(input[2])) \/ IsDriveAbsolute(Clean(input[2]))
         THEN output.res = New(<<input[2]>>)
       ELSE IF IsDriveRelative(Clean(input[2]))
         THEN IF Drive(output.acc) = Take(Clean(input[2]), 2)
                THEN output.res = New(<<input[1], Drop(input[2], 2)>>)
              ELSE output.res = New(<<input[2]>>)
       ELSE IF IsRootlessAbsolute(Clean(input[2])) THEN TRUE
       ELSE output.res = New(<<Concatenated(output.acc, input[2])>>)

\* C7: in New and Join a segment that starts with a single separator keeps
\* the drive letter of the accumulator, whether the accumulator is
\* drive-rooted, drive-relative or a bare drive, and replaces an accumulator
\* without a drive letter
C7_RootlessKeepsDriveLetter ==
  (pc \in {"new", "joined"} /\ IsRootlessAbsolute(Clean(input[2]))) =>
    IF regDriveColon(output.acc)
      THEN output.res = Take(output.acc, 2) \o Clean(input[2])
    ELSE output.res = Clean(input[2])

-----------------------------------------------------------------------------
(* PureWindowsPath: Parents, one action per round of its loop.              *)

\* the test that ends Parents: the path is "." or nothing but its anchor
IsDotOrAnchor(p) == p = <<".">> \/ p = Anchor(p)

InitParents ==
  /\ pc = "init"
  /\ input \in
       PathStrings({<<>>, <<FS>>, <<"c", ":">>, <<"c", ":", FS>>,
                    <<FS, FS, "s", FS, "h", FS>>},
                   {<<"a">>, <<"b">>, <<".", ".">>}, MaxParts)
  /\ output = <<>>

\* p := NewPureWindowsPath(input)
BuildPath ==
  /\ pc = "init"
  /\ output' = [p |-> New(<<input>>), cur |-> <<>>, result |-> <<>>]
  /\ pc' = "built"
  /\ UNCHANGED input

\* p.Parents() up to its loop: nil for "." and for a bare anchor, or
\* cur := p.Parent()
CallParents ==
  /\ pc = "built"
  /\ IF IsDotOrAnchor(output.p)
       THEN pc' = "done" /\ UNCHANGED output
     ELSE pc' = "loop" /\ output' = [output EXCEPT !.cur = Parent(output.p)]
  /\ UNCHANGED input

\* one round of the loop: append cur, then stop or go on with cur.Parent()
ParentsLoop ==
  /\ pc = "loop"
  /\ IF IsDotOrAnchor(output.cur)
       THEN /\ pc' = "done"
            /\ output' = [output EXCEPT !.result = Append(output.result, output.cur)]
     ELSE /\ pc' = "loop"
          /\ output' = [output EXCEPT !.result = Append(output.result, output.cur),
                                      !.cur = Parent(output.cur)]
  /\ UNCHANGED input

NextParents == BuildPath \/ CallParents \/ ParentsLoop

SpecParents == InitParents /\ [][NextParents]_vars

\* C8: for "." and a bare anchor Parent() is the receiver and Parents() is
\* empty; for any other path the loop of Parents ends, within as many rounds
\* as the receiver has parts, and its result starts with Parent() of the
\* receiver, continues with Parent() of the element before, which has
\* exactly one part fewer, and ends with "." or a bare anchor
C8_ParentsShorten ==
  /\ (pc \in {"built", "done"} /\ IsDotOrAnchor(output.p))
       => Parent(output.p) = output.p /\ output.result = <<>>
  /\ pc = "loop" => Len(output.result) < Len(Parts(output.p))
  /\ (pc = "done" /\ ~IsDotOrAnchor(output.p))
       => /\ Len(output.result) >= 1
          /\ output.result[1] = Parent(output.p)
          /\ \A i \in 2..Len(output.result) :
               /\ output.result[i] = Parent(output.result[i - 1])
               /\ Len(Parts(output.result[i])) = Len(Parts(output.result[i - 1])) - 1
          /\ IsDotOrAnchor(output.result[Len(output.result)])

\* Parts of p and p.String() agree: no part exactly when p is ".", the anchor
\* first, the parts joined with '\' give the string back, and no part after
\* the anchor is empty or holds a separator
PartsReassemble(p, parts, anchor) ==
  /\ (parts = <<>>) <=> (p = <<".">>)
  /\ anchor # <<>> =>
       /\ parts # <<>>
       /\ parts[1] = anchor
       /\ parts[1] \o JoinStrings(Tail(parts), BS) = p
  /\ (anchor = <<>> /\ parts # <<>>) => JoinStrings(parts, BS) = p
  /\ \A i \in 1..Len(parts) :
       (i > 1 \/ anchor = <<>>) => parts[i] # <<>> /\ Count(parts[i], BS) = 0

\* C9: the parts of every constructed path reassemble into its string
C9_PartsReassemble ==
  /\ pc = "built" => PartsReassemble(output.acc, Parts(output.acc), Anchor(output.acc))
  /\ pc \in {"new", "joined"} =>
       PartsReassemble(output.res, Parts(output.res), Anchor(output.res))

-----------------------------------------------------------------------------
(* package ntpath: ValidateName.                                            *)

\* the longest name ValidateName accepts
MaxNameLen == 255

\* the characters \s of a Go regular expression matches
IsSpace(c) == c \in {"\t", "\n", "\f", "\r", " "}

InvalidChars == {"<", ">", ":", FS, BS, "|", "?", "*", "\""}

ReservedNames ==
  {<<"C", "O", "N">>, <<"P", "R", "N">>, <<"A", "U", "X">>, <<"N", "U", "L">>}
  \cup {<<"C", "O", "M", d>> : d \in {"1", "2", "3", "4", "5", "6", "7", "8", "9"}}
  \cup {<<"L", "P", "T", d>> : d \in {"1", "2", "3", "4", "5", "6", "7", "8", "9"}}

\* ValidateName without the test for a trailing dot
ValidateNameNoDotTest(name) ==
  IF Len(name) = 0 THEN "NoName"
  ELSE IF Len(name) > MaxNameLen THEN "InvalidName"
  ELSE IF IsSpace(name[Len(name)]) THEN "InvalidName"
  ELSE IF Count(name, "\n") > 0 \/ Count(name, "\r") > 0 THEN "InvalidName"
  ELSE IF \E c \in InvalidChars : Count(name, c) > 0 THEN "InvalidName"
  ELSE IF \E reservedName \in ReservedNames : EqualFold(name, reservedName)
    THEN "InvalidName"
  ELSE "nil"

\* ValidateName(name): the error it returns, "nil" for none
ValidateName(name) ==
  IF Len(name) = 0 THEN "NoName"
  ELSE IF Len(name) > MaxNameLen THEN "InvalidName"
  ELSE IF name[Len(name)] = "." THEN "InvalidName"
  ELSE IF IsSpace(name[Len(name)]) THEN "InvalidName"
  ELSE IF Count(name, "\n") > 0 \/ Count(name, "\r") > 0 THEN "InvalidName"
  ELSE IF \E c \in InvalidChars : Count(name, c) > 0 THEN "InvalidName"
  ELSE IF \E reservedName \in ReservedNames : EqualFold(name, reservedName)
    THEN "InvalidName"
  ELSE "nil"

-----------------------------------------------------------------------------
(* PureWindowsPath: Suffixes, Suffix, Stem, WithName, WithStem, WithSuffix. *)

\* Suffixes, Suffix and Stem, from p.Name()
SuffixesOfName(name) ==
  IF name = <<>> \/ Len(Split(name, ".")) <= 1 THEN <<>>
  ELSE [i \in 1..(Len(Split(name, ".")) - 1) |-> <<".">> \o Split(name, ".")[i + 1]]

SuffixOfSuffixes(suffixes) ==
  IF Len(suffixes) = 0 THEN <<>> ELSE suffixes[Len(suffixes)]

Suffixes(p) == SuffixesOfName(Name(p))
Suffix(p) == SuffixOfSuffixes(Suffixes(p))
Stem(p) == TrimSuffix(Name(p), Suffix(p))

\* strings.Join(parts, "")
RECURSIVE Concat(_)
Concat(parts) == IF Len(parts) = 0 THEN <<>> ELSE parts[1] \o Concat(Tail(parts))

\* a call that fails returns no path
NoPath == <<>>

\* the end of WithName, WithStem and WithSuffix: validate the new name and
\* rebuild the path
Rename(p, err, newName) ==
  IF err # "nil" THEN [err |-> err, path |-> NoPath]
  ELSE [err |-> "nil", path |-> New(<<p, <<".", ".">>, newName>>)]

\* p.WithName(name)
WithName(p, name) ==
  IF Name(p) = <<>> THEN [err |-> "NoName", path |-> NoPath]
  ELSE Rename(p, ValidateName(name), name)

\* p.WithStem(stem)
WithStem(p, stem) ==
  IF Name(p) = <<>> THEN [err |-> "NoName", path |-> NoPath]
  ELSE Rename(p, ValidateName(stem \o Suffix(p)), stem \o Suffix(p))

\* the name WithSuffix builds: the stem up to its first dot, then the
\* suffixes with the last one replaced
NewSuffixName(stem, suffixes, suffix) ==
  IF Len(suffixes) = 0 THEN Split(stem, ".")[1] \o suffix
  ELSE Split(stem, ".")[1] \o Concat(Take(suffixes, Len(suffixes) - 1)) \o suffix

\* p.WithSuffix(suffix)
WithSuffix(p, suffix) ==
  IF Name(p) = <<>> THEN [err |-> "NoName", path |-> NoPath]
  ELSE IF ~HasPrefix(suffix, <<".">>) THEN [err |-> "InvalidSuffix", path |-> NoPath]
  ELSE Rename(p, ValidateName(NewSuffixName(Stem(p), Suffixes(p), suffix)),
              NewSuffixName(Stem(p), Suffixes(p), suffix))

-----------------------------------------------------------------------------
(* WithName, WithStem and WithSuffix applied to receivers and arguments.    *)

InitWith ==
  /\ pc = "init"
  /\ input \in
       [path : {dir \o name :
                  dir \in {<<>>, <<"c", ":", FS>>, <<"c", ":", "d", FS>>, <<".", ".", FS>>},
                  name \in {<<>>, <<"a">>, <<"a", ".", "b", ".", "c">>, <<".", "a">>,
                            <<".", ".">>}},
        \* short strings, names with a control character, reserved words, and
        \* names of the longest accepted length and one more
        arg : Strings({"b", ".", " ", "?"}, MaxSegLen)
              \cup {<<"b", "\n", "b">>, <<"\r", "b">>, <<"b", "\t">>,
                    <<".", "b", "\t", "b">>, <<"C", "O", "N">>, <<"c", "o", "n">>,
                    <<"L", "p", "t", "1">>, <<".", "N", "U", "L">>, <<"C", "O", "M">>}
              \cup {[i \in 1..n |-> IF i = 1 THEN "." ELSE "b"] :
                      n \in {MaxNameLen, MaxNameLen + 1}}]
  /\ output = <<>>

\* what is recorded of a call: the receiver, the method, its result
Renamed(p, op, r) == [p |-> p, op |-> op, err |-> r.err, path |-> r.path]

\* p.WithName(arg)
CallWithName ==
  /\ pc = "built"
  /\ output' = Renamed(output.p, "WithName", WithName(output.p, input.arg))
  /\ pc' = "renamed"
  /\ UNCHANGED input

\* p.WithStem(arg)
CallWithStem ==
  /\ pc = "built"
  /\ output' = Renamed(output.p, "WithStem", WithStem(output.p, input.arg))
  /\ pc' = "renamed"
  /\ UNCHANGED input

\* p.WithSuffix(arg)
CallWithSuffix ==
  /\ pc = "built"
  /\ output' = Renamed(output.p, "WithSuffix", WithSuffix(output.p, input.arg))
  /\ pc' = "renamed"
  /\ UNCHANGED input

NextWith == BuildReceiver \/ CallWithName \/ CallWithStem \/ CallWithSuffix

SpecWith == InitWith /\ [][NextWith]_vars

\* the component name a call would produce
ProducedName(op, p, arg) ==
  IF op = "WithName" THEN arg
  ELSE IF op = "WithStem" THEN arg \o Suffix(p)
  ELSE NewSuffixName(Stem(p), Suffixes(p), arg)

\* the component-name rules: a reserved character, a trailing dot or
\* whitespace, a newline, a reserved word, more than 255 characters
ViolatesNameRules(name) ==
  \/ \E i \in 1..Len(name) : name[i] \in {"<", ">", ":", FS, BS, "|", "?", "*", "\""}
  \/ Len(name) > 0 /\ (name[Len(name)] = "." \/ IsSpace(name[Len(name)]))
  \/ \E i \in 1..Len(name) : name[i] \in {"\n", "\r"}
  \/ ToLower(name) \in {ToLower(w) : w \in ReservedNames}
  \/ Len(name) > MaxNameLen

\* C10: WithName, WithStem and WithSuffix fail with NoName on a receiver
\* without a name; WithSuffix fails with InvalidSuffix when the suffix does
\* not start with a dot; all three fail with InvalidName when the name they
\* would produce breaks a component-name rule; a failure returns no path,
\* and the Name() of a returned path passes ValidateName
C10_RenameErrors ==
  pc = "renamed" =>
    /\ Name(output.p) = <<>> => output.err = "NoName"
    /\ (Name(output.p) # <<>> /\ output.op = "WithSuffix" /\ ~HasPrefix(input.arg, <<".">>))
         => output.err = "InvalidSuffix"
    /\ (/\ Name(output.p) # <<>>
        /\ output.op = "WithSuffix" => HasPrefix(input.arg, <<".">>)
        /\ ViolatesNameRules(ProducedName(output.op, output.p, input.arg)))
         => output.err = "InvalidName"
    /\ output.err # "nil" => output.path = NoPath
    /\ output.err = "nil" =>
         /\ output.path # NoPath
         /\ ValidateName(Name(output.path)) = "nil"

\* WithSuffix replaced the last suffix of a name with several suffixes
C10_Witness ==
  /\ pc = "renamed"
  /\ output.op = "WithSuffix"
  /\ output.err = "nil"
  /\ Name(output.p) = <<"a", ".", "b", ".", "c">>
  /\ Name(output.path) = <<"a", ".", "b", ".", "b">>

\* C11: whenever WithName, WithStem or WithSuffix succeeds on p, the returned
\* path is p.Parent().Join(n) for the component name n it produced: only the
\* last component is replaced, also when the last component of p is ".."
C11_RenameIsParentJoin ==
  (pc = "renamed" /\ output.err = "nil")
    => output.path = Join(Parent(output.p),
                          <<ProducedName(output.op, output.p, input.arg)>>)

-----------------------------------------------------------------------------
(* package ntpath: ToValidName; PureWindowsPath: ToValid.                   *)

\* regexp [\s.]+$ replaced by "", dots only: the whitespace is left in place
TrimTrailingDots(name) ==
  IF \E i \in 1..Len(name) : name[i] # "."
    THEN Take(name, CHOOSE i \in 1..Len(name) :
                      /\ name[i] # "."
                      /\ \A j \in (i + 1)..Len(name) : name[j] = ".")
  ELSE <<>>

\* regexp [\s.]+$ replaced by ""
TrimTrailingDotsAndSpace(name) ==
  IF \E i \in 1..Len(name) : ~(IsSpace(name[i]) \/ name[i] = ".")
    THEN Take(name, CHOOSE i \in 1..Len(name) :
                      /\ ~(IsSpace(name[i]) \/ name[i] = ".")
                      /\ \A j \in (i + 1)..Len(name) : IsSpace(name[j]) \/ name[j] = ".")
  ELSE <<>>

\* the end of ToValidName: a reserved name gets a "_", an empty one becomes "_"
FinishValidName(name) ==
  IF \E reserved \in ReservedNames : EqualFold(name, reserved) THEN Append(name, "_")
  ELSE IF Len(name) = 0 THEN <<"_">>
  ELSE name

\* ntpath.ToValidName(name)
ToValidName(name) ==
  LET truncated == IF Len(name) > MaxNameLen THEN Take(name, MaxNameLen) ELSE name
      \* invalidCharsRegex replaced by "_"
      replaced == [i \in 1..Len(truncated) |->
                     IF truncated[i] \in InvalidChars THEN "_" ELSE truncated[i]]
      trimmed == TrimTrailingDotsAndSpace(replaced)
      \* strings.NewReplacer("\n", " ", "\r", " ")
      oneLine == [i \in 1..Len(trimmed) |->
                    IF trimmed[i] \in {"\n", "\r"} THEN " " ELSE trimmed[i]]
  IN IF Len(name) = 0 THEN <<"_">> ELSE FinishValidName(oneLine)

\* ToValid once p.Anchor() and the parts after the anchor are known
ToValidOfParts(anchor, parts) ==
  New(<<anchor>> \o [i \in 1..Len(parts) |-> ToValidName(parts[i])])

\* p.ToValid()
ToValid(p) ==
  ToValidOfParts(Anchor(p), IF Anchor(p) # <<>> THEN Tail(Parts(p)) ELSE Parts(p))

-----------------------------------------------------------------------------
(* ToValidName applied to names, ToValid to paths of a few parts.           *)

InitToValid ==
  /\ pc = "init"
  /\ input \in
       [path : PathStrings({<<>>, <<FS>>, <<FS, FS>>, <<"c", ":">>, <<"c", ":", FS>>,
                            <<FS, FS, "s", FS, "h", FS>>},
                           {<<"a">>, <<".", ".">>, <<"a", ":", "b">>, <<"a", "\n", "b">>,
                            <<"?", ".", " ">>, <<"n", "u", "l">>, <<"a", "\t">>},
                           MaxParts - 1)
               \cup {<<"c", ":", FS>> \o [i \in 1..(MaxNameLen + 1) |-> "b"]},
        name : {<<>>}]
       \cup
       [path : {<<>>},
        name : Strings({"a", ".", " ", ":", "\n"}, MaxSegLen)
               \cup {<<"C", "O", "N">>, <<"c", "o", "m", "1", ".">>, <<"l", "p", "t", "9", "\r">>,
                     <<"N", "U", "L", "\t", ".">>, <<"a", "\r", "b", "\f">>,
                     <<"<", ">", ":", FS, BS, "|", "?", "*", "\"">>}
               \cup {[i \in 1..n |-> IF i = n THEN c ELSE "b"] :
                       n \in {MaxNameLen, MaxNameLen + 1, MaxNameLen + 2},
                       c \in {"b", ".", " "}}]
  /\ output = <<>>

\* ntpath.ToValidName(name)
CallToValidName ==
  /\ pc = "init"
  /\ output' = [name |-> ToValidName(input.name)]
  /\ pc' = "named"
  /\ UNCHANGED input

\* p.ToValid()
CallToValid ==
  /\ pc = "built"
  /\ output' = [p |-> output.p, res |-> ToValid(output.p)]
  /\ pc' = "valid"
  /\ UNCHANGED input

NextToValid == BuildReceiver \/ CallToValidName \/ CallToValid

SpecToValid == InitToValid /\ [][NextToValid]_vars

\* C12: ToValid keeps the anchor and the number of parts of p, and every
\* part of its result after the anchor passes ValidateName; ToValidName(x)
\* passes ValidateName for every string x (empty, over-long, a reserved
\* word, all dots and whitespace)
C12_ToValidSanitizes ==
  /\ pc = "named" => ValidateName(output.name) = "nil"
  /\ pc = "valid" =>
       /\ Anchor(output.res) = Anchor(output.p)
       /\ Len(Parts(output.res)) = Len(Parts(output.p))
       /\ \A i \in 1..Len(Parts(output.res)) :
            (i > 1 \/ Anchor(output.res) = <<>>)
              => ValidateName(Parts(output.res)[i]) = "nil"

\* ToValid changed a path of two names under a drive root, one of which
\* ValidateName rejects
C12_Witness ==
  /\ pc = "valid"
  /\ Anchor(output.p) = <<"c", ":", BS>>
  /\ Len(Parts(output.p)) = 3
  /\ output.res # output.p
  /\ \E i \in 2..3 : ValidateName(Parts(output.p)[i]) # "nil"

-----------------------------------------------------------------------------
(* The file system under WindowsPath. A file system is a function from the  *)
(* keys of its entries to their nodes; a key is the list of the components  *)
(* of an entry's absolute path, the drive first; a node has a kind ("dir",  *)
(* "file", "link") and data (a file's content, a link's recorded target).   *)

\* the working directory of the process
Cwd == <<"c", ":", BS, "w">>

\* the number of links the system follows while it resolves one path
MaxLinks == 4

\* the components of the path the system is handed: those of an absolute
\* path, or those of the working directory followed by those of a relative one
OSComps(p) ==
  IF Len(p) >= 2 /\ p[2] = ":" THEN Split(ReplaceChar(p, FS, BS), BS)
  ELSE Split(Cwd, BS) \o Split(ReplaceChar(p, FS, BS), BS)

RECURSIVE Phys(_, _, _, _, _)

\* the system's path resolution, from the directory cur along the components
\* comps: the key of the entry reached, without following a link in the last
\* component unless follow; ok is false when there is no such entry
Phys(fs, cur, comps, follow, fuel) ==
  IF comps = <<>> THEN [ok |-> cur \in DOMAIN fs, key |-> cur]
  ELSE IF Head(comps) = <<>> \/ Head(comps) = <<".">>
    THEN Phys(fs, cur, Tail(comps), follow, fuel)
  ELSE IF Head(comps) = <<".", ".">>
    THEN Phys(fs, IF Len(cur) > 1 THEN Take(cur, Len(cur) - 1) ELSE cur, Tail(comps),
              follow, fuel)
  ELSE IF Append(cur, Head(comps)) \notin DOMAIN fs
    THEN [ok |-> FALSE, key |-> Append(cur, Head(comps))]
  ELSE IF fs[Append(cur, Head(comps))].kind = "link" /\ (follow \/ Len(comps) > 1)
    THEN IF fuel = 0 THEN [ok |-> FALSE, key |-> Append(cur, Head(comps))]
         ELSE IF Len(fs[Append(cur, Head(comps))].data) >= 2
                 /\ fs[Append(cur, Head(comps))].data[2] = ":"
           THEN Phys(fs, <<>>,
                     Split(ReplaceChar(fs[Append(cur, Head(comps))].data, FS, BS), BS)
                       \o Tail(comps),
                     follow, fuel - 1)
         ELSE Phys(fs, cur,
                   Split(ReplaceChar(fs[Append(cur, Head(comps))].data, FS, BS), BS)
                     \o Tail(comps),
                   follow, fuel - 1)
  ELSE IF fs[Append(cur, Head(comps))].kind = "file" /\ Len(comps) > 1
    THEN [ok |-> FALSE, key |-> Append(cur, Head(comps))]
  ELSE Phys(fs, Append(cur, Head(comps)), Tail(comps), follow, fuel)

\* the node os.Stat (follow) or os.Lstat (not follow) finds at p; kind "none"
\* when it fails
Stat(fs, p, follow) ==
  IF Phys(fs, <<>>, OSComps(p), follow, MaxLinks).ok
    THEN fs[Phys(fs, <<>>, OSComps(p), follow, MaxLinks).key]
  ELSE [kind |-> "none", data |-> <<>>]

\* the names of the entries of a directory, in the order os.ReadDir lists them
EntryNames ==
  <<<<"a">>, <<"a", "b">>, <<"d">>, <<"e">>, <<"f">>, <<"g">>, <<"h">>, <<"k">>, <<"l">>,
    <<"m">>, <<"r">>, <<"s">>, <<"t">>, <<"w">>>>

\* DirEntries without the last entry of the directory
DirEntriesButLast(fs, p, dir) ==
  [i \in 1..(Len(SelectSeq(EntryNames, LAMBDA n : Append(dir, n) \in DOMAIN fs)) - 1) |->
     Join(p, <<SelectSeq(EntryNames, LAMBDA n : Append(dir, n) \in DOMAIN fs)[i]>>)]

\* the children of the directory p, whose key is dir: p.Join(name) for each
\* name os.ReadDir lists
DirEntries(fs, p, dir) ==
  [i \in 1..Len(SelectSeq(EntryNames, LAMBDA n : Append(dir, n) \in DOMAIN fs)) |->
     Join(p, <<SelectSeq(EntryNames, LAMBDA n : Append(dir, n) \in DOMAIN fs)[i]>>)]

\* p.ReadDir() of a directory p
ReadDir(fs, p) == DirEntries(fs, p, Phys(fs, <<>>, OSComps(p), TRUE, MaxLinks).key)

\* p.ToAbs(): filepath.Abs
ToAbs(p) == IF IsAbs(p) THEN New(<<filepathClean(p)>>) ELSE New(<<filepathJoin(Cwd, p)>>)

-----------------------------------------------------------------------------
(* Walk and Glob. One action per invocation of walkRecursively up to its    *)
(* loop, one per return from the loop, one per resumption of the caller.    *)

\* shouldStopWalk that stops on WalkStop only
shouldStopWalkOnStop(err) == err = "WalkStop"

\* shouldStopWalk that stops on every value but nil
shouldStopWalkOnSkip(err) == err # "nil"

shouldStopWalk(err) == err # "nil" /\ err # "WalkSkip"

\* Mark that marks the path as being walked, whatever the mark
MarkInProgress(visited, key, mark) ==
  [k \in DOMAIN visited \cup {key} |-> IF k = key THEN 1 ELSE visited[k]]

\* visited[key] = mark, in the map of Walk: 1 for a path being walked, 2
\* for a path whose walk is over, no key for a path not met yet
Mark(visited, key, mark) ==
  [k \in DOMAIN visited \cup {key} |-> IF k = key THEN mark ELSE visited[k]]

\* walkRecursively(root) up to its first call of fn: how it is entered
\* ("seen", "done", "linkcycle", "link", "plain"), the path and the
\* condition it hands to fn, and whether the path walked is a directory
WalkEnter(fs, follow, visited, root, rootAbs) ==
  IF rootAbs \in DOMAIN visited /\ visited[rootAbs] = 1
    THEN [enter |-> "seen", path |-> rootAbs, cond |-> "WalkCycle", isDir |-> FALSE]
  ELSE IF rootAbs \in DOMAIN visited /\ visited[rootAbs] = 2
    THEN [enter |-> "done", path |-> rootAbs, cond |-> "nil", isDir |-> FALSE]
  ELSE IF follow /\ Stat(fs, root, FALSE).kind = "link"
    THEN IF IsRelTo(rootAbs, New(<<Stat(fs, rootAbs, FALSE).data>>), FALSE)
           THEN [enter |-> "linkcycle", path |-> rootAbs, cond |-> "WalkCycle",
                 isDir |-> FALSE]
         ELSE [enter |-> "link", path |-> New(<<Stat(fs, rootAbs, FALSE).data>>),
               cond |-> "nil",
               isDir |-> Stat(fs, New(<<Stat(fs, rootAbs, FALSE).data>>), FALSE).kind = "dir"]
  ELSE [enter |-> "plain", path |-> root, cond |-> "nil",
        isDir |-> Stat(fs, root, FALSE).kind = "dir"]

\* the callback of Glob if it returned every condition it is handed
GlobCallbackStrict(cond, skipOnCycle) == cond

\* the callback of Glob
GlobCallback(cond, skipOnCycle) ==
  IF cond # "nil" THEN IF cond = "WalkCycle" /\ skipOnCycle THEN "nil" ELSE cond
  ELSE "nil"

\* walkRecursively(root) after fn returned ret: it returns (ret is set) or
\* enters its loop over the children (a frame is pushed, ret is "none")
WalkEntered(o, fs, key, e, ret) ==
  IF e.enter = "done" THEN [o EXCEPT !.ret = "nil"]
  ELSE IF e.enter = "seen" THEN [o EXCEPT !.ret = ret]
  ELSE IF e.enter = "linkcycle" \/ shouldStopWalk(ret)
    THEN [o EXCEPT !.ret = ret, !.visited = Mark(@, key, 2)]
  ELSE IF ~e.isDir \/ ret = "WalkSkip"
    THEN [o EXCEPT !.ret = "nil", !.visited = Mark(@, key, 2)]
  ELSE [o EXCEPT !.ret = "none", !.visited = Mark(@, key, 1),
                 !.stack = Append(@, [key |-> key, root |-> e.path,
                                      todo |-> ReadDir(fs, e.path)])]

\* walkRecursively(root) is called with the walk in the state o, rootAbs
\* being root.ToAbs() and e how the call is entered; a call of
\* fn is recorded with the path and the condition it is handed, the value
\* it returns (nil, WalkSkip, WalkStop or another error, as it likes) and
\* the depth of the recursion
WalkInvoke(o, rootAbs, e) ==
  /\ \E ret \in IF e.enter = "done" THEN {"nil"}
                ELSE IF input.glob THEN {GlobCallback(e.cond, input.skipOnCycle)}
                ELSE {"nil", "WalkSkip", "WalkStop", "other"} :
       output' = WalkEntered(IF e.enter = "done" THEN o
                             ELSE [o EXCEPT !.calls =
                                     Append(@, [path |-> e.path, cond |-> e.cond,
                                                ret |-> ret, depth |-> Len(o.stack)])],
                             input.fs, rootAbs, e, ret)
  /\ pc' = IF output'.ret = "none" THEN "loop" ELSE "returned"
  /\ UNCHANGED input

\* Walk(root, fn, follow): the first call of walkRecursively
WalkCall ==
  /\ pc = "init"
  /\ \E rootAbs \in {ToAbs(input.root)} :
       \E e \in {WalkEnter(input.fs, input.follow, <<>>, input.root, rootAbs)} :
         WalkInvoke([stack |-> <<>>, visited |-> <<>>, calls |-> <<>>, ret |-> "none"],
                    rootAbs, e)

\* the loop of walkRecursively calls walkRecursively on the next child
WalkChild ==
  /\ pc = "loop"
  /\ output.stack[Len(output.stack)].todo # <<>>
  /\ \E rootAbs \in {ToAbs(Head(output.stack[Len(output.stack)].todo))} :
       \E e \in {WalkEnter(input.fs, input.follow, output.visited,
                            Head(output.stack[Len(output.stack)].todo), rootAbs)} :
         WalkInvoke([output EXCEPT !.stack[Len(output.stack)].todo = Tail(@)],
                    rootAbs, e)

\* the loop of walkRecursively is over: return nil, the deferred function
\* marks the path as finished
WalkReturn ==
  /\ pc = "loop"
  /\ output.stack[Len(output.stack)].todo = <<>>
  /\ output' = [output EXCEPT !.ret = "nil",
                              !.visited = Mark(@, output.stack[Len(output.stack)].key, 2),
                              !.stack = Take(@, Len(@) - 1)]
  /\ pc' = "returned"
  /\ UNCHANGED input

\* a call of walkRecursively returned to the loop of its caller, which
\* returns the value if it stops the walk and goes on otherwise
WalkResume ==
  /\ pc = "returned"
  /\ output.stack # <<>>
  /\ output' = IF shouldStopWalk(output.ret)
                 THEN [output EXCEPT !.visited = Mark(@, output.stack[Len(output.stack)].key, 2),
                                     !.stack = Take(@, Len(@) - 1)]
               ELSE [output EXCEPT !.ret = "none"]
  /\ pc' = IF shouldStopWalk(output.ret) THEN "returned" ELSE "loop"
  /\ UNCHANGED input

\* the first call of walkRecursively returned: Walk returns its value, and
\* Glob returns the matching paths or the failure
WalkDone ==
  /\ pc = "returned"
  /\ output.stack = <<>>
  /\ output' = [calls |-> output.calls, err |-> output.ret,
                paths |-> IF ~input.glob \/ output.ret # "nil" THEN <<>>
                          ELSE [i \in DOMAIN SelectSeq(output.calls,
                                   LAMBDA c : c.cond = "nil"
                                              /\ FullMatch(c.path, input.pattern, FALSE)) |->
                                  SelectSeq(output.calls,
                                    LAMBDA c : c.cond = "nil"
                                               /\ FullMatch(c.path, input.pattern,
                                                            FALSE))[i].path]]
  /\ pc' = "done"
  /\ UNCHANGED input

\* a directory r in the working directory with two subdirectories a and ab,
\* a file a\f, and two links, a\l and ab\m; the walk starts at r, at a or
\* at the link a\l;
\* any callback for Walk, the callback of Glob with the pattern **/f for Glob
InitWalk ==
  /\ pc = "init"
  /\ \E t1 \in {<<".">>, <<".", ".">>, <<"c", ":", BS, "w", BS, "r">>,
                <<"c", ":", BS, "w", BS, "r", BS, "a", "b">>, <<".", ".", BS, "a", "b">>,
                <<"d", ":", BS, "n">>, <<"f">>},
        t2 \in {<<"d", ":", BS, "n">>, <<"c", ":", BS, "w", BS, "r", BS, "a">>,
                <<".", ".", BS, "a">>} :
       \E follow \in BOOLEAN, glob \in BOOLEAN, skipOnCycle \in BOOLEAN,
          root \in {<<"r">>, <<"c", ":", BS, "w", BS, "r", BS, "a">>,
                    <<"r", BS, "a", BS, "l">>} :
         /\ ~glob => ~skipOnCycle
         /\ input =
              [fs |-> [k \in {<<<<"c", ":">>>>, <<<<"c", ":">>, <<"w">>>>,
                              <<<<"c", ":">>, <<"w">>, <<"r">>>>,
                              <<<<"c", ":">>, <<"w">>, <<"r">>, <<"a">>>>,
                              <<<<"c", ":">>, <<"w">>, <<"r">>, <<"a">>, <<"f">>>>,
                              <<<<"c", ":">>, <<"w">>, <<"r">>, <<"a">>, <<"l">>>>,
                              <<<<"c", ":">>, <<"w">>, <<"r">>, <<"a", "b">>>>,
                              <<<<"c", ":">>, <<"w">>, <<"r">>, <<"a", "b">>, <<"m">>>>} |->
                         IF k[Len(k)] = <<"f">> THEN [kind |-> "file", data |-> <<"x">>]
                         ELSE IF k[Len(k)] = <<"l">> THEN [kind |-> "link", data |-> t1]
                         ELSE IF k[Len(k)] = <<"m">> THEN [kind |-> "link", data |-> t2]
                         ELSE [kind |-> "dir", data |-> <<>>]],
               root |-> root, follow |-> follow, glob |-> glob,
               skipOnCycle |-> skipOnCycle, pattern |-> <<"*", "*", FS, "f">>]
  /\ output = <<>>

NextWalk == WalkCall \/ WalkChild \/ WalkReturn \/ WalkResume \/ WalkDone

SpecWalk == InitWalk /\ [][NextWalk]_vars

\* Walk and Glob run to their return: no step of walkRecursively waits for
\* anything but the callback, which returns. Weak fairness of the returns
\* and, with their guards written out for ENABLED, of the calls
FairWalk ==
  /\ SpecWalk
  /\ WF_vars(WalkReturn \/ WalkResume)
  /\ \/ []<>(/\ pc # "init"
             /\ pc = "loop" => output.stack[Len(output.stack)].todo = <<>>
             /\ pc = "returned" => output.stack # <<>>)
     \/ []<><<WalkCall \/ WalkChild \/ WalkDone>>_vars

\* the key of the entry a reported path names, links not followed
KeyOf(path) == Phys(input.fs, <<>>, OSComps(path), FALSE, MaxLinks).key

\* the entry with key k lies beneath the directory with key d
Beneath(k, d) == Len(k) > Len(d) /\ Take(k, Len(d)) = d

\* the walk is over, and every callback returned one of rets
WalkOverWith(rets) ==
  /\ pc = "done"
  /\ ~input.glob
  /\ \A i \in 1..Len(output.calls) : output.calls[i].ret \in rets

\* the keys of the entries reported with a nil condition
ReportedKeys ==
  {KeyOf(output.calls[i].path) :
     i \in {j \in 1..Len(output.calls) : output.calls[j].cond = "nil"}}

\* the root and the entries reached from it through real directories for
\* which the callback did not return WalkSkip
ReachedKeys ==
  {k \in DOMAIN input.fs :
     \/ k = KeyOf(input.root)
     \/ /\ Beneath(k, KeyOf(input.root))
        /\ \A n \in Len(KeyOf(input.root))..(Len(k) - 1) :
             /\ input.fs[Take(k, n)].kind = "dir"
             /\ \A i \in 1..Len(output.calls) :
                  KeyOf(output.calls[i].path) = Take(k, n)
                    => output.calls[i].ret # "WalkSkip"}

\* C13: with link-following off and a callback that always returns nil,
\* Walk calls the callback with a nil condition on the root and on every
\* entry reached from it through real directories (links are reported, not
\* descended); a directory is reported before every entry beneath it, and
\* the reports of the entries of one directory's subtree are contiguous
C13_WalkPreOrderComplete ==
  (WalkOverWith({"nil"}) /\ ~input.follow) =>
    /\ \A i \in 1..Len(output.calls) : output.calls[i].cond = "nil"
    /\ ReportedKeys = ReachedKeys
    /\ \A i, j \in 1..Len(output.calls) :
         Beneath(KeyOf(output.calls[j].path), KeyOf(output.calls[i].path)) => i < j
    /\ \A d, i, j, k \in 1..Len(output.calls) :
         (/\ i < k /\ k < j
          /\ Beneath(KeyOf(output.calls[i].path), KeyOf(output.calls[d].path))
          /\ Beneath(KeyOf(output.calls[j].path), KeyOf(output.calls[d].path)))
           => Beneath(KeyOf(output.calls[k].path), KeyOf(output.calls[d].path))

\* a walk without link-following reported the root, both directories, the
\* file and both links
C13_Witness ==
  /\ WalkOverWith({"nil"})
  /\ ~input.follow
  /\ Len(output.calls) = 6
  /\ output.err = "nil"

\* C14: once the callback has returned WalkStop or another value that is
\* neither nil nor WalkSkip, at any depth and whatever condition it was
\* handed, it is not called again, and Walk returns that value
C14_StopAbortsWalk ==
  pc \in {"loop", "returned", "done"} =>
    /\ \A i \in 1..Len(output.calls) :
         output.calls[i].ret \notin {"nil", "WalkSkip"} => i = Len(output.calls)
    /\ (/\ pc = "done"
        /\ output.calls # <<>>
        /\ output.calls[Len(output.calls)].ret \notin {"nil", "WalkSkip"})
         => output.err = output.calls[Len(output.calls)].ret

\* Walk returned an error the callback returned two levels below the root
\* when it was handed a WalkCycle condition
C14_Witness ==
  /\ pc = "done"
  /\ ~input.glob
  /\ output.err = "other"
  /\ output.calls[Len(output.calls)].cond = "WalkCycle"
  /\ output.calls[Len(output.calls)].depth = 2
  /\ Len(output.calls) < 6

\* C15: WalkSkip returned for a directory that was reported with a nil
\* condition keeps Walk from descending into it: the next call of the
\* callback is not deeper; every later sibling and every other branch is
\* still walked, so that without link-following the entries reported are
\* exactly those reached through directories that were not skipped;
\* WalkSkip returned for an entry that is not a directory changes nothing
C15_SkipPrunesBranch ==
  WalkOverWith({"nil", "WalkSkip"}) =>
    /\ \A i \in 1..(Len(output.calls) - 1) :
         (output.calls[i].ret = "WalkSkip" /\ output.calls[i].cond = "nil")
           => output.calls[i + 1].depth <= output.calls[i].depth
    /\ ~input.follow => ReportedKeys = ReachedKeys

\* the directory a was skipped, its entries were not reported, and the
\* directory ab and its link, skipped too, were reported after it
C15_Witness ==
  /\ WalkOverWith({"nil", "WalkSkip"})
  /\ ~input.follow
  /\ Len(output.calls) = 4
  /\ output.calls[2].ret = "WalkSkip"
  /\ output.calls[4].ret = "WalkSkip"
  /\ output.calls[4].depth = 2

\* the key of the entry the link with key k leads to, links followed
TargetKey(k) == Phys(input.fs, <<>>, k, TRUE, MaxLinks).key

\* C16: with link-following on, a link beneath the root whose target is an
\* ancestor directory of the link, whether the recorded target is absolute
\* or relative to the link's directory, is reported with a WalkCycle
\* condition at the link; and a WalkCycle condition reported at a link
\* means that the link's target is an ancestor of the link, component by
\* component
C16_AncestorLinkIsCycle ==
  (WalkOverWith({"nil"}) /\ input.follow) =>
    /\ \A k \in DOMAIN input.fs :
         (/\ input.fs[k].kind = "link"
          /\ Beneath(k, KeyOf(input.root))
          /\ Beneath(k, TargetKey(k)))
           => \E i \in 1..Len(output.calls) :
                /\ output.calls[i].cond = "WalkCycle"
                /\ KeyOf(output.calls[i].path) = k
    /\ \A i \in 1..Len(output.calls) :
         (/\ output.calls[i].cond = "WalkCycle"
          /\ input.fs[KeyOf(output.calls[i].path)].kind = "link")
           => Beneath(KeyOf(output.calls[i].path),
                      TargetKey(KeyOf(output.calls[i].path)))

\* C17: Glob returns, whatever cycles the links of the tree form; with
\* SkipOnCycle it returns its matches and no failure; without SkipOnCycle
\* it returns the WalkCycle failure and no paths when a cycle was reported,
\* and its matches when none was
C17_GlobTerminates ==
  /\ <>(pc = "done")
  /\ [](pc = "done" /\ input.glob =>
          /\ input.skipOnCycle => output.err = "nil"
          /\ (~input.skipOnCycle
              /\ \E i \in 1..Len(output.calls) : output.calls[i].cond = "WalkCycle")
               => (output.err = "WalkCycle" /\ output.paths = <<>>)
          /\ (\A i \in 1..Len(output.calls) : output.calls[i].cond = "nil")
               => output.err = "nil"
          /\ output.err = "nil" =>
               \A i \in 1..Len(output.paths) :
                 \E j \in 1..Len(output.calls) : output.calls[j].path = output.paths[i])

\* Glob with Follow and SkipOnCycle returned the file it matched from a
\* tree in which it met a link cycle
C17_Witness ==
  /\ pc = "done"
  /\ input.glob /\ input.follow /\ input.skipOnCycle
  /\ \E i \in 1..Len(output.calls) : output.calls[i].cond = "WalkCycle"
  /\ output.err = "nil"
  /\ output.paths # <<>>

-----------------------------------------------------------------------------
(* Operations that change the file system. Each is a function from a file   *)
(* system to the file system it leaves and the error it returns.            *)

\* "if err != nil { return err }": what follows a call that returned r
IfNil(r, Then(_)) == IF r.err # "nil" THEN [fs |-> r.fs, err |-> r.err] ELSE Then(r)

\* the key under which the system finds or creates the entry p names
PathKey(fs, p) == Phys(fs, <<>>, OSComps(p), FALSE, MaxLinks).key

\* the file system with node written at key
WriteEntry(fs, key, node) ==
  [k \in DOMAIN fs \cup {key} |-> IF k = key THEN node ELSE fs[k]]

\* p.Remove(): nothing when p does not exist, os.RemoveAll otherwise
Remove(fs, p) ==
  IF Stat(fs, p, FALSE).kind = "none" THEN fs
  ELSE [k \in {x \in DOMAIN fs :
                 ~(/\ Len(x) >= Len(PathKey(fs, p))
                   /\ Take(x, Len(PathKey(fs, p))) = PathKey(fs, p))} |-> fs[k]]

RECURSIVE MkdirAll(_, _)

\* p.Mkdir(true): os.MkdirAll, which makes the missing parents first
MkdirAll(fs, p) ==
  IF Stat(fs, p, TRUE).kind = "dir" THEN [fs |-> fs, err |-> "nil"]
  ELSE IF Stat(fs, p, FALSE).kind # "none" THEN [fs |-> fs, err |-> "Mkdir"]
  ELSE IfNil(MkdirAll(fs, Parent(p)),
             LAMBDA made :
               [fs |-> WriteEntry(made.fs, PathKey(made.fs, p),
                                  [kind |-> "dir", data |-> <<>>]),
                err |-> "nil"])

\* p.EnsureDir()
EnsureDir(fs, p) ==
  IF Stat(fs, p, TRUE).kind = "dir" THEN [fs |-> fs, err |-> "nil"]
  ELSE IF Stat(fs, p, TRUE).kind # "none" THEN [fs |-> fs, err |-> "EnsureDir"]
  ELSE MkdirAll(fs, p)

\* ensureMove that removes dst whatever replace is
ensureMoveReplacing(fs, dst, replace) ==
  IfNil([fs |-> Remove(fs, dst), err |-> "nil"],
        LAMBDA r :
          IF Stat(r.fs, dst, FALSE).kind # "none" THEN [fs |-> r.fs, err |-> "TargetExists"]
          ELSE EnsureDir(r.fs, Parent(dst)))

\* ensureMove(dst, replace)
ensureMove(fs, dst, replace) ==
  IfNil([fs |-> IF replace THEN Remove(fs, dst) ELSE fs, err |-> "nil"],
        LAMBDA r :
          IF Stat(r.fs, dst, FALSE).kind # "none" THEN [fs |-> r.fs, err |-> "TargetExists"]
          ELSE EnsureDir(r.fs, Parent(dst)))

\* SameFile that compares the two paths as they are written
SameFileByString(fs, p, other) == p = other

\* p.SameFile(other): both exist and are the same entry, links followed
SameFile(fs, p, other) ==
  /\ Phys(fs, <<>>, OSComps(p), TRUE, MaxLinks).ok
  /\ Phys(fs, <<>>, OSComps(other), TRUE, MaxLinks).ok
  /\ Phys(fs, <<>>, OSComps(p), TRUE, MaxLinks).key
       = Phys(fs, <<>>, OSComps(other), TRUE, MaxLinks).key

\* CopyFile(src, dst)
CopyFile(fs, src, dst) ==
  IfNil(ensureMove(fs, dst, FALSE),
        LAMBDA r :
          IF Stat(r.fs, src, TRUE).kind # "file" THEN [fs |-> r.fs, err |-> "CopyFile"]
          ELSE [fs |-> WriteEntry(r.fs, PathKey(r.fs, dst),
                                  [kind |-> "file", data |-> Stat(r.fs, src, TRUE).data]),
                err |-> "nil"])

\* CopySymlink(src, dst): the target read from src is recorded at dst, a
\* relative one replaced by target.RelToFile(dst)
CopySymlink(fs, src, dst) ==
  IfNil(ensureMove(fs, dst, FALSE),
        LAMBDA r :
          IF Stat(r.fs, src, FALSE).kind # "link" THEN [fs |-> r.fs, err |-> "ReadLink"]
          ELSE IfNil([fs |-> r.fs, err |-> "nil",
                      target |->
                        IF IsAbs(New(<<Stat(r.fs, src, FALSE).data>>))
                          THEN [err |-> "nil",
                                path |-> New(<<Stat(r.fs, src, FALSE).data>>)]
                        ELSE RelTo(New(<<Stat(r.fs, src, FALSE).data>>), Parent(dst),
                                   TRUE)],
                     LAMBDA t :
                       IF t.target.err # "nil" THEN [fs |-> t.fs, err |-> t.target.err]
                       ELSE [fs |-> WriteEntry(t.fs, PathKey(t.fs, dst),
                                               [kind |-> "link",
                                                data |-> t.target.path]),
                             err |-> "nil"]))

RECURSIVE CopyDir(_, _, _)
RECURSIVE CopyDirLoop(_, _, _)

\* the loop of CopyDir over the children of src that are left
CopyDirLoop(fs, children, dst) ==
  IF children = <<>> THEN [fs |-> fs, err |-> "nil"]
  ELSE IfNil(IF Stat(fs, Head(children), FALSE).kind = "link"
               THEN CopySymlink(fs, Head(children), Join(dst, <<Name(Head(children))>>))
             ELSE IF Stat(fs, Head(children), FALSE).kind = "file"
               THEN CopyFile(fs, Head(children), Join(dst, <<Name(Head(children))>>))
             ELSE IF Stat(fs, Head(children), FALSE).kind = "dir"
               THEN CopyDir(fs, Head(children), Join(dst, <<Name(Head(children))>>))
             ELSE [fs |-> fs, err |-> "CopyDir"],
             LAMBDA r : CopyDirLoop(r.fs, Tail(children), dst))

\* CopyDir(src, dst): ensureMove, src.ReadDir(), dst.Mkdir() and the loop
CopyDir(fs, src, dst) ==
  IfNil(ensureMove(fs, dst, FALSE),
        LAMBDA r :
          CopyDirLoop(WriteEntry(r.fs, PathKey(r.fs, dst), [kind |-> "dir", data |-> <<>>]),
                      ReadDir(fs, src), dst))

\* p.Copy(dst, replace)
Copy(fs, p, dst, replace) ==
  IF SameFile(fs, p, dst) THEN [fs |-> fs, err |-> "nil"]
  ELSE IfNil(ensureMove(fs, dst, replace),
             LAMBDA r :
               IF Stat(r.fs, p, FALSE).kind = "link" THEN CopySymlink(r.fs, p, dst)
               ELSE IF Stat(r.fs, p, FALSE).kind = "file" THEN CopyFile(r.fs, p, dst)
               ELSE IF Stat(r.fs, p, FALSE).kind = "dir" THEN CopyDir(r.fs, p, dst)
               ELSE [fs |-> r.fs, err |-> "Copy"])

\* os.Rename(p, dst) of a file or a directory, from and to being the keys of
\* p and of dst, which does not exist: the entry and what lies beneath it
\* get the key of dst; a directory cannot be moved into itself
osRename(fs, from, to) ==
  IF Len(to) >= Len(from) /\ Take(to, Len(from)) = from THEN [fs |-> fs, err |-> "Move"]
  ELSE [fs |-> [k \in {x \in DOMAIN fs : ~(Len(x) >= Len(from) /\ Take(x, Len(from)) = from)}
                      \cup {to \o Drop(x, Len(from)) :
                              x \in {y \in DOMAIN fs :
                                       Len(y) >= Len(from) /\ Take(y, Len(from)) = from}} |->
                  IF Len(k) >= Len(to) /\ Take(k, Len(to)) = to
                    THEN fs[from \o Drop(k, Len(to))]
                  ELSE fs[k]],
        err |-> "nil"]

\* p.Move(dst, replace)
Move(fs, p, dst, replace) ==
  IF SameFile(fs, p, dst) THEN [fs |-> fs, err |-> "nil"]
  ELSE IfNil(ensureMove(fs, dst, replace),
             LAMBDA r :
               IF Stat(r.fs, p, FALSE).kind = "link"
                 THEN IfNil(CopySymlink(r.fs, p, dst),
                            LAMBDA c : [fs |-> Remove(c.fs, p), err |-> "nil"])
               ELSE IF Stat(r.fs, p, FALSE).kind \in {"file", "dir"}
                 THEN osRename(r.fs, PathKey(r.fs, p), PathKey(r.fs, dst))
               ELSE r)

RECURSIVE CopyMerge(_, _, _, _)
RECURSIVE CopyMergeLoop(_, _, _, _)

\* the switch on the mode in the loop of CopyMerge, for a childDst that
\* exists: Error returns TargetExists, Skip goes on with the next child,
\* Replace removes childDst and copies child; merged is what the merge of
\* two directories returned, and the file system as it was otherwise
MergeSwitch(merged, child, childDst, mode) ==
  IfNil(merged,
        LAMBDA r :
          IF mode = "Error" THEN [fs |-> r.fs, err |-> "TargetExists"]
          ELSE IF mode = "Skip" THEN r
          ELSE Copy(Remove(r.fs, childDst), child, childDst, FALSE))

\* one iteration of the loop of CopyMerge
MergeChild(fs, child, childDst, mode) ==
  IF Stat(fs, childDst, FALSE).kind = "none" THEN Copy(fs, child, childDst, FALSE)
  ELSE IF Stat(fs, childDst, FALSE).kind # "dir"
    THEN MergeSwitch([fs |-> fs, err |-> "nil"], child, childDst, mode)
  ELSE IF Stat(fs, child, FALSE).kind # "dir" THEN [fs |-> fs, err |-> "TargetExists"]
  ELSE MergeSwitch(CopyMerge(fs, child, childDst, mode), child, childDst, mode)

\* the loop of CopyMerge over the children of src that are left
CopyMergeLoop(fs, children, dst, mode) ==
  IF children = <<>> THEN [fs |-> fs, err |-> "nil"]
  ELSE IfNil(MergeChild(fs, Head(children), Join(dst, <<Name(Head(children))>>), mode),
             LAMBDA r : CopyMergeLoop(r.fs, Tail(children), dst, mode))

\* CopyMerge(src, dst, mode)
CopyMerge(fs, src, dst, mode) == CopyMergeLoop(fs, ReadDir(fs, src), dst, mode)

\* p.CopyMerge(dst, mode)
WindowsPathCopyMerge(fs, p, dst, mode) ==
  IF SameFile(fs, p, dst) THEN [fs |-> fs, err |-> "nil"]
  ELSE IF Stat(fs, p, FALSE).kind # "dir" THEN [fs |-> fs, err |-> "CopyMerge"]
  ELSE IfNil(EnsureDir(fs, dst), LAMBDA r : CopyMerge(r.fs, p, dst, mode))

-----------------------------------------------------------------------------
(* Copy, Move and CopyMerge on a tree in the working directory: a source    *)
(* directory s with a file s\g, a directory s\d with a file s\d\f and, for  *)
(* Copy and Move, a link s\l; a destination directory t that may be         *)
(* missing, with some of t\d, t\d\f, t\d\e, t\g, t\h.                       *)

\* the entries of s and the entries K beneath the working directory: the
\* files of s hold x, those of t hold y and z, s\l is a link to target,
\* and t\g is a directory if gDir
Tree(K, target, gDir) ==
  [k \in {<<<<"c", ":">>>>, <<<<"c", ":">>, <<"w">>>>}
           \cup {<<<<"c", ":">>, <<"w">>>> \o r :
                   r \in K \cup {<<<<"s">>>>, <<<<"s">>, <<"d">>>>,
                                 <<<<"s">>, <<"d">>, <<"f">>>>, <<<<"s">>, <<"g">>>>}} |->
     IF k[Len(k)] = <<"l">> THEN [kind |-> "link", data |-> target]
     ELSE IF k[Len(k)] \in {<<"f">>, <<"g">>} /\ k[3] = <<"s">>
       THEN [kind |-> "file", data |-> <<"x">>]
     ELSE IF k[Len(k)] = <<"f">> \/ (k[Len(k)] = <<"g">> /\ ~gDir)
       THEN [kind |-> "file", data |-> <<"y">>]
     ELSE IF k[Len(k)] \in {<<"e">>, <<"h">>} THEN [kind |-> "file", data |-> <<"z">>]
     ELSE [kind |-> "dir", data |-> <<>>]]

InitCopy ==
  /\ pc = "init"
  /\ output = <<>>
  /\ \/ \E K \in SUBSET {<<<<"t">>>>, <<<<"t">>, <<"d">>>>, <<<<"t">>, <<"d">>, <<"f">>>>,
                         <<<<"t">>, <<"d">>, <<"e">>>>, <<<<"t">>, <<"g">>>>,
                         <<<<"t">>, <<"h">>>>} :
          \E gDir \in BOOLEAN :
            /\ \A k \in K : Len(k) > 1 => Take(k, Len(k) - 1) \in K
            /\ gDir => <<<<"t">>, <<"g">>>> \in K
            /\ \E fs \in {Tree(K, <<>>, gDir)} :
                 \E mode \in {"Error", "Skip", "Replace"},
                    dst \in {<<"t">>, <<"c", ":", BS, "w", BS, "s">>},
                    op \in {"CopyMerge", "MoveMerge"} :
                   input = [op |-> op, fs |-> fs, p |-> <<"s">>, dst |-> dst,
                            mode |-> mode, replace |-> FALSE]
     \/ \E K \in SUBSET {<<<<"t">>>>, <<<<"t">>, <<"g">>>>} :
          \E target \in {<<"g">>, <<"d", BS, "f">>, <<"c", ":", BS, "w", BS, "s", BS, "g">>} :
            /\ \A k \in K : Len(k) > 1 => Take(k, Len(k) - 1) \in K
            /\ \E fs \in {Tree(K \cup {<<<<"s">>, <<"l">>>>}, target, FALSE)} :
                 \E p \in {<<"s", BS, "l">>, <<"s", BS, "g">>, <<"s", BS, "d">>},
                    dst \in {<<"s", BS, "k">>, <<"s", BS, "l">>, <<"t", BS, "k">>,
                             <<"t", BS, "g">>, <<"k">>,
                             <<"c", ":", BS, "w", BS, "t", BS, "k">>},
                    op \in {"Copy", "Move", "Resolve"}, replace \in BOOLEAN :
                   input = [op |-> op, fs |-> fs, p |-> p, dst |-> dst,
                            mode |-> "Error", replace |-> replace]

\* p.MoveMerge(dst, mode): p.CopyMerge(dst, mode), then p.Remove(), which
\* removes the whole source tree
MoveMerge(fs, p, dst, mode) ==
  IfNil(WindowsPathCopyMerge(fs, p, dst, mode),
        LAMBDA r : [fs |-> Remove(r.fs, p), err |-> "nil"])

\* p.Resolve(): ToAbs, then ReadLink on the absolute path, which is
\* os.Readlink and NewWindowsPath of the target as it is recorded
Resolve(fs, p) ==
  LET absPath == ToAbs(p)
      node == Stat(fs, absPath, FALSE)
  IN IF node.kind # "link" THEN [err |-> "Resolve", path |-> <<>>]
     ELSE [err |-> "nil", path |-> New(<<node.data>>)]

\* p.Copy(dst, replace)
CallCopy ==
  /\ pc = "init"
  /\ input.op = "Copy"
  /\ output' = Copy(input.fs, input.p, input.dst, input.replace)
  /\ pc' = "done"
  /\ UNCHANGED input

\* p.Move(dst, replace)
CallMove ==
  /\ pc = "init"
  /\ input.op = "Move"
  /\ output' = Move(input.fs, input.p, input.dst, input.replace)
  /\ pc' = "done"
  /\ UNCHANGED input

\* p.CopyMerge(dst, mode)
CallCopyMerge ==
  /\ pc = "init"
  /\ input.op = "CopyMerge"
  /\ output' = WindowsPathCopyMerge(input.fs, input.p, input.dst, input.mode)
  /\ pc' = "done"
  /\ UNCHANGED input

\* p.MoveMerge(dst, mode)
CallMoveMerge ==
  /\ pc = "init"
  /\ input.op = "MoveMerge"
  /\ output' = MoveMerge(input.fs, input.p, input.dst, input.mode)
  /\ pc' = "done"
  /\ UNCHANGED input

\* p.Resolve()
CallResolve ==
  /\ pc = "init"
  /\ input.op = "Resolve"
  /\ output' = Resolve(input.fs, input.p)
  /\ pc' = "resolved"
  /\ UNCHANGED input

NextCopy == CallCopy \/ CallMove \/ CallCopyMerge \/ CallResolve

SpecCopy == InitCopy /\ [][NextCopy]_vars

\* the calls of MoveMerge on the same trees
NextMoveMerge == CallMoveMerge

SpecMoveMerge == InitCopy /\ [][NextMoveMerge]_vars

\* the key of the destination entry that corresponds to the entry k of the
\* source tree of the call
Counterpart(k) ==
  PathKey(input.fs, input.dst) \o Drop(k, Len(PathKey(input.fs, input.p)))

\* the entries of the source tree of the call, the source directory excluded
SourceEntries == {k \in DOMAIN input.fs : Beneath(k, PathKey(input.fs, input.p))}

\* an entry of the source tree that is not a directory has an entry at its
\* destination path before the call
MergeConflicts ==
  \E k \in SourceEntries :
    input.fs[k].kind # "dir" /\ Counterpart(k) \in DOMAIN input.fs

\* C18: CopyMerge in the mode MergeModeError returns TargetExists exactly
\* when an entry of the source tree that is not a directory has an entry at
\* its destination path; otherwise, directories of the same name on both
\* sides included, it returns nil and every entry of the source tree is at
\* its destination path
C18_FailModeFileByFile ==
  (/\ pc = "done"
   /\ input.op = "CopyMerge"
   /\ input.mode = "Error"
   /\ ~SameFile(input.fs, input.p, input.dst)) =>
    /\ (output.err = "TargetExists") <=> MergeConflicts
    /\ ~MergeConflicts =>
         /\ output.err = "nil"
         /\ \A k \in SourceEntries :
              /\ Counterpart(k) \in DOMAIN output.fs
              /\ output.fs[Counterpart(k)] = input.fs[k]

\* the entries of the destination tree before the call, the destination
\* directory excluded
DestinationEntries == {k \in DOMAIN input.fs : Beneath(k, PathKey(input.fs, input.dst))}

\* C19: after a successful CopyMerge in the mode MergeModeSkip or
\* MergeModeReplace every entry of the destination tree that has no entry of
\* the same path in the source tree is still there and unchanged, at any
\* depth; in skip mode every file of the destination tree is unchanged; in
\* replace mode every file of the source tree is at its destination path
C19_MergeKeepsDestination ==
  (/\ pc = "done"
   /\ input.op = "CopyMerge"
   /\ input.mode \in {"Skip", "Replace"}
   /\ ~SameFile(input.fs, input.p, input.dst)
   /\ output.err = "nil") =>
    /\ \A k \in DestinationEntries :
         (\A s \in SourceEntries : Counterpart(s) # k)
           => (k \in DOMAIN output.fs /\ output.fs[k] = input.fs[k])
    /\ input.mode = "Skip" =>
         \A k \in DestinationEntries :
           input.fs[k].kind = "file"
             => (k \in DOMAIN output.fs /\ output.fs[k] = input.fs[k])
    /\ input.mode = "Replace" =>
         \A s \in SourceEntries :
           input.fs[s].kind = "file"
             => (/\ Counterpart(s) \in DOMAIN output.fs
                 /\ output.fs[Counterpart(s)] = input.fs[s])

\* C20: Copy and Move of a link to a destination that does not exist
\* succeed and leave a link at the destination that leads to the entry the
\* source link led to, whether the recorded target is relative or absolute;
\* an absolute target is recorded as it was; Move removes the source link;
\* the target is left as it was
C20_LinkRecreated ==
  (/\ pc = "done"
   /\ input.op \in {"Copy", "Move"}
   /\ Stat(input.fs, input.p, FALSE).kind = "link"
   /\ Stat(input.fs, input.dst, FALSE).kind = "none") =>
    /\ output.err = "nil"
    /\ Stat(output.fs, input.dst, FALSE).kind = "link"
    /\ Phys(output.fs, <<>>, OSComps(input.dst), TRUE, MaxLinks).ok
    /\ Phys(output.fs, <<>>, OSComps(input.dst), TRUE, MaxLinks).key
         = Phys(input.fs, <<>>, OSComps(input.p), TRUE, MaxLinks).key
    /\ IsAbs(Stat(input.fs, input.p, FALSE).data)
         => Stat(output.fs, input.dst, FALSE).data = Stat(input.fs, input.p, FALSE).data
    /\ input.op = "Move" => PathKey(input.fs, input.p) \notin DOMAIN output.fs
    /\ Phys(input.fs, <<>>, OSComps(input.p), TRUE, MaxLinks).key \in DOMAIN output.fs
    /\ output.fs[Phys(input.fs, <<>>, OSComps(input.p), TRUE, MaxLinks).key]
         = Stat(input.fs, input.p, TRUE)

\* the destination of the call exists, links not followed, and is not the
\* same file as the receiver
DestinationTaken ==
  /\ pc = "done"
  /\ input.op \in {"Copy", "Move"}
  /\ Stat(input.fs, input.dst, FALSE).kind # "none"
  /\ ~SameFile(input.fs, input.p, input.dst)

C21_WitnessReplace ==
  /\ DestinationTaken
  /\ input.op = "Move"
  /\ input.replace
  /\ output.err = "nil"
  /\ Stat(output.fs, input.dst, FALSE) = [kind |-> "file", data |-> <<"x">>]
  /\ Stat(input.fs, input.dst, FALSE) = [kind |-> "file", data |-> <<"y">>]

\* the receiver and the destination of the call exist and lead, links
\* followed, to the same entry
SameEntry ==
  /\ Stat(input.fs, input.p, TRUE).kind # "none"
  /\ Stat(input.fs, input.dst, TRUE).kind # "none"
  /\ Phys(input.fs, <<>>, OSComps(input.p), TRUE, MaxLinks).key
       = Phys(input.fs, <<>>, OSComps(input.dst), TRUE, MaxLinks).key

\* C22: when the receiver and dst are the same file, Move, Copy and
\* CopyMerge return nil and leave the file system as it was, whatever the
\* replace flag or the merge mode
C22_SameFileShortCircuit ==
  (pc = "done" /\ input.op \in {"Move", "Copy", "CopyMerge"} /\ SameEntry) => (output.err = "nil" /\ output.fs = input.fs)

\* a Copy with replace of a file to a link that leads to it changed nothing
C22_Witness ==
  /\ pc = "done"
  /\ input.op = "Copy"
  /\ input.replace
  /\ input.p # input.dst
  /\ Stat(input.fs, input.dst, FALSE).kind = "link"
  /\ SameEntry
  /\ output.fs = input.fs

\* ---------------------------------------------------------------------
\* File URLs: WindowsPath.ToURL, URLToPath, FromURL
\* ---------------------------------------------------------------------

\* net/url unescape(s, encodePath): every %XX becomes the byte XX, a % that
\* is not followed by two hex digits is an error; a byte outside the
\* printable range is written as its number
RECURSIVE unescape(_)
unescape(s) ==
  LET hexDigits == <<"0", "1", "2", "3", "4", "5", "6", "7",
                     "8", "9", "a", "b", "c", "d", "e", "f">>
      ishex(c) == \E i \in 1..16 : hexDigits[i] = ToLowerChar(c)
      unhex(c) == (CHOOSE i \in 1..16 : hexDigits[i] = ToLowerChar(c)) - 1
      \* the printable characters of ASCII, from the space (32) to the
      \* tilde (126); the grave accent (96), which a string of this language
      \* cannot hold, is written as its number
      printable ==
        <<" ", "!", "\"", "#", "$", "%", "&", "'", "(", ")", "*", "+",
         ",", "-", ".", "/", "0", "1", "2", "3", "4", "5", "6", "7",
         "8", "9", ":", ";", "<", "=", ">", "?", "@", "A", "B", "C",
         "D", "E", "F", "G", "H", "I", "J", "K", "L", "M", "N", "O",
         "P", "Q", "R", "S", "T", "U", "V", "W", "X", "Y", "Z", "[",
         "\\", "]", "^", "_", "0x96", "a", "b", "c", "d", "e", "f", "g",
         "h", "i", "j", "k", "l", "m", "n", "o", "p", "q", "r", "s",
         "t", "u", "v", "w", "x", "y", "z", "{", "|", "}", "~">>
      byte(n) == IF n >= 32 /\ n <= 126 THEN printable[n - 31]
                 ELSE "0x" \o ToString(n)
  IN IF s = <<>> THEN [ok |-> TRUE, s |-> <<>>]
     ELSE IF s[1] = "%"
       THEN IF Len(s) < 3 \/ ~ishex(s[2]) \/ ~ishex(s[3])
              THEN [ok |-> FALSE, s |-> <<>>]
              ELSE LET r == unescape(Drop(s, 3))
                   IN [ok |-> r.ok,
                       s |-> <<byte(unhex(s[2]) * 16 + unhex(s[3]))>> \o r.s]
     ELSE LET r == unescape(Tail(s))
          IN [ok |-> r.ok, s |-> <<s[1]>> \o r.s]

\* url.Parse(rawURL) for a URL without user information and port: the
\* fragment is cut at the first #, the scheme ends at the first colon, the
\* query is cut at the first ?, the authority follows // up to the next /,
\* and the rest is the path, unescaped
urlParse(rawURL) ==
  LET u == Take(rawURL, SepPos(rawURL, "#", 1) - 1)
      colon == SepPos(u, ":", 1)
      hasScheme == /\ colon > 1
                   /\ colon <= Len(u)
                   /\ \A i \in 1..(colon - 1) : IsLetter(u[i])
      scheme == IF hasScheme THEN ToLower(Take(u, colon - 1)) ELSE <<>>
      afterScheme == IF hasScheme THEN Drop(u, colon) ELSE u
      rest == Take(afterScheme, SepPos(afterScheme, "?", 1) - 1)
      hasAuthority == HasPrefix(rest, <<FS, FS>>)
      a == Drop(rest, 2)
      slash == SepPos(a, FS, 1)
      host == IF hasAuthority THEN Take(a, slash - 1) ELSE <<>>
      path == unescape(IF hasAuthority THEN Drop(a, slash - 1) ELSE rest)
  IN IF colon = 1 THEN [err |-> "MissingScheme", Scheme |-> <<>>, Host |-> <<>>, Path |-> <<>>]
     ELSE IF Count(host, " ") > 0 \/ Count(host, "%") > 0
       THEN [err |-> "InvalidHost", Scheme |-> <<>>, Host |-> <<>>, Path |-> <<>>]
     ELSE IF ~path.ok
       THEN [err |-> "InvalidEscape", Scheme |-> <<>>, Host |-> <<>>, Path |-> <<>>]
     ELSE [err |-> "nil", Scheme |-> scheme, Host |-> host, Path |-> path.s]

\* p.ToURL(): the URL and the error, "nil" for none
ToURL(p) ==
  LET absPath == ToAbs(p)
      anchor == Anchor(absPath)
      path == absPath
      t == IF HasPrefix(path, <<BS, BS>>) THEN Drop(path, 2) ELSE path
      i == SepPos(t, BS, 1)
      host == Take(t, i - 1)
      urlPath == Drop(t, i)
  IN IF HasPrefix(anchor, <<BS, BS>>)
       THEN IF i > Len(t)
              THEN [err |-> "ToURL", url |-> <<>>]
              ELSE [err |-> "nil",
                    url |-> <<"f", "i", "l", "e", ":", FS, FS>> \o host \o <<FS>>
                              \o ReplaceChar(urlPath, BS, FS)]
       ELSE [err |-> "nil",
             url |-> <<"f", "i", "l", "e", ":", FS, FS, FS>> \o ReplaceChar(path, BS, FS)]

\* URLToPath(fileUrl) on Windows
URLToPath(fileUrl) ==
  LET u == urlParse(fileUrl)
      path == IF Len(u.Path) >= 3 /\ u.Path[3] = ":"
                THEN IF HasPrefix(u.Path, <<FS>>) THEN Tail(u.Path) ELSE u.Path
                ELSE <<FS, FS>> \o u.Host \o u.Path
  IN IF u.err # "nil" THEN [err |-> "ParseURL", path |-> <<>>]
     ELSE IF u.Scheme # <<"f", "i", "l", "e">> THEN [err |-> "ParseURL", path |-> <<>>]
     ELSE [err |-> "nil", path |-> Clean(path)]

\* FromURL(fileUrl)
FromURL(fileUrl) ==
  LET r == URLToPath(fileUrl)
  IN IF r.err # "nil" THEN r ELSE [err |-> "nil", path |-> New(<<r.path>>)]

\* absolute paths, drive-rooted and UNC, whose last name is any valid name
\* of at most MaxSegLen characters over letters, digits, space, # and %
InitURL ==
  /\ pc = "init"
  /\ output = <<>>
  /\ \E prefix \in {<<"c", ":", BS>>, <<"c", ":", BS, "d", BS>>,
                    <<BS, BS, "h", BS, "s", BS>>} :
       \E name \in Strings({"g", "4", "1", "%", "#", " "}, MaxSegLen) :
         /\ ValidateName(name) = "nil"
         /\ input = New(<<prefix \o name>>)

CallToURL ==
  /\ pc = "init"
  /\ pc' = "url"
  /\ output' = ToURL(input)
  /\ UNCHANGED input

CallFromURL ==
  /\ pc = "url"
  /\ output.err = "nil"
  /\ pc' = "done"
  /\ output' = [url |-> output.url] @@ FromURL(output.url)
  /\ UNCHANGED input

NextURL == CallToURL \/ CallFromURL

SpecURL == InitURL /\ [][NextURL]_vars

\* C23: for every valid absolute path p, drive-rooted or UNC, also with
\* names that contain a space, # or %, ToURL(p) succeeds, FromURL of that
\* URL succeeds, and the String() of the result equals p.String()
C23_URLRoundTrip ==
  /\ pc = "url" => output.err = "nil"
  /\ pc = "done" => (output.err = "nil" /\ output.path = input)

\* the absolute location Resolve is to return for the receiver: its own
\* absolute form, or for a link the recorded target, taken from the link's
\* directory when it is relative
ResolvedLocation ==
  LET absPath == ToAbs(input.p)
      node == Stat(input.fs, input.p, FALSE)
      target == New(<<node.data>>)
  IN IF node.kind # "link" THEN absPath
     ELSE IF IsAbs(target) THEN target
     ELSE Join(Parent(absPath), <<target>>)

\* C24: Resolve of a path that is not a symbolic link succeeds with the
\* path's absolute form; Resolve of a symbolic link succeeds with the
\* absolute location of its target, a relative target being taken relative
\* to the link's directory
C24_ResolveIsAbsolute ==
  (pc = "resolved" /\ Stat(input.fs, input.p, FALSE).kind # "none") =>
    (output.err = "nil" /\ output.path = ResolvedLocation)

\* C29: after a successful MoveMerge, in any mode, every file of the source
\* tree is either at its destination path with the source's content or
\* still in the source tree; a file whose copy was skipped is not deleted
C29_MoveMergeLosesNothing ==
  (pc = "done" /\ input.op = "MoveMerge" /\ output.err = "nil") =>
    \A k \in SourceEntries :
      input.fs[k].kind = "file" =>
        \/ Counterpart(k) \in DOMAIN output.fs /\ output.fs[Counterpart(k)] = input.fs[k]
        \/ k \in DOMAIN output.fs /\ output.fs[k] = input.fs[k]

\* the loop of walkRecursively is about to call walkRecursively on a child
\* whose absolute path is marked 1, a path being walked
ReachesInProgress ==
  /\ pc = "loop"
  /\ output.stack[Len(output.stack)].todo # <<>>
  /\ ToAbs(Head(output.stack[Len(output.stack)].todo)) \in DOMAIN output.visited
  /\ output.visited[ToAbs(Head(output.stack[Len(output.stack)].todo))] = 1

\* C25: when the walk reaches a path that is marked as being walked, fn is
\* called once for it with the condition WalkCycle, its children are
\* neither listed nor walked, and when fn returns nil or WalkSkip the walk
\* goes on with the remaining children of the directory it was in
C25_CycleGuard ==
  [][/\ ReachesInProgress =>
          /\ Len(output'.calls) = Len(output.calls) + 1
          /\ output'.calls[Len(output'.calls)].cond = "WalkCycle"
          /\ output'.calls[Len(output'.calls)].path
               = ToAbs(Head(output.stack[Len(output.stack)].todo))
          /\ SubSeq(output'.calls, 1, Len(output.calls)) = output.calls
          /\ Len(output'.stack) = Len(output.stack)
          /\ output'.visited = output.visited
          /\ output'.ret = output'.calls[Len(output'.calls)].ret
          /\ pc' = "returned"
     /\ (/\ pc = "returned"
         /\ output.stack # <<>>
         /\ output.calls # <<>>
         /\ output.calls[Len(output.calls)].cond = "WalkCycle"
         /\ output.ret \in {"nil", "WalkSkip"}) =>
          /\ pc' = "loop"
          /\ output'.stack = output.stack
          /\ output'.calls = output.calls]_vars

\* fn returned WalkSkip for a path that is marked as being walked, and the
\* walk is back in the loop over the children
C25_Witness ==
  /\ pc = "loop"
  /\ output.calls # <<>>
  /\ output.calls[Len(output.calls)].cond = "WalkCycle"
  /\ output.calls[Len(output.calls)].ret = "WalkSkip"
  /\ output.calls[Len(output.calls)].path \in DOMAIN output.visited
  /\ output.visited[output.calls[Len(output.calls)].path] = 1

\* the paths marked 1 in the map of Walk, the paths being walked
InProgress ==
  IF pc \in {"loop", "returned"}
    THEN {k \in DOMAIN output.visited : output.visited[k] = 1}
  ELSE {}

\* C26: at every point of a Walk the paths marked 1 are exactly the
\* absolute paths of the calls of walkRecursively that have not returned;
\* a path marked 2 is never marked 1 again; and when the first call
\* returns, with nil, a stop or any other value, no path is marked 1
C26_VisitedInvariant ==
  /\ [](pc \in {"loop", "returned"} =>
          /\ InProgress = {output.stack[i].key : i \in 1..Len(output.stack)}
          /\ \A i, j \in 1..Len(output.stack) :
               output.stack[i].key = output.stack[j].key => i = j
          /\ (pc = "returned" /\ output.stack = <<>>) => InProgress = {})
  /\ [][(pc \in {"loop", "returned"} /\ pc' \in {"loop", "returned"}) =>
          \A k \in DOMAIN output.visited :
            /\ k \in DOMAIN output'.visited
            /\ output.visited[k] = 2 => output'.visited[k] = 2]_vars

\* the first call of walkRecursively returned after a stop signal from a
\* callback two directories down, and three paths are marked 2
C26_Witness ==
  /\ pc = "returned"
  /\ output.stack = <<>>
  /\ output.ret = "WalkStop"
  /\ output.calls # <<>>
  /\ output.calls[Len(output.calls)].depth = 2
  /\ Cardinality({k \in DOMAIN output.visited : output.visited[k] = 2}) >= 3

\* C27: within one Walk, with or without link-following, fn is called with
\* a nil condition at most once for any absolute path, also when a
\* directory is reached both directly and through a link that points to it
C27_NoNodeReportedTwice ==
  (pc = "done" /\ ~input.glob) =>
    \A i, j \in 1..Len(output.calls) :
      (/\ output.calls[i].cond = "nil"
       /\ output.calls[j].cond = "nil"
       /\ ToAbs(output.calls[i].path) = ToAbs(output.calls[j].path)) => i = j

\* C28: Walk never returns WalkSkip, and when fn returned nothing but nil
\* and WalkSkip during a walk, whatever condition it was handed and for
\* whatever path, the root included, Walk returns nil
C28_SkipIsInBand ==
  /\ (pc = "done" /\ ~input.glob) => output.err # "WalkSkip"
  /\ WalkOverWith({"nil", "WalkSkip"}) => output.err = "nil"

\* the parts of the base of the call are, ignoring case, the leading parts
\* of the receiver, or the base is `.` and the receiver has no anchor
ComponentPrefix ==
  \/ /\ Len(Parts(output.base)) <= Len(Parts(output.p))
     /\ \A i \in 1..Len(Parts(output.base)) :
          EqualFold(Parts(output.p)[i], Parts(output.base)[i])
  \/ output.base = <<".">> /\ Anchor(output.p) = <<>>

\* C30: with walkUp = false, p.IsRelTo(other) holds and p.RelTo(other)
\* returns a path only when the parts of other are, ignoring case, leading
\* parts of p as whole components (or other is `.` and p has no anchor), and
\* then other joined with the result is p, ignoring case; otherwise RelTo
\* fails with NotRelative
C30_NoWalkUpComponentPrefix ==
  (pc \in {"aborted", "failed", "relative", "joined"} /\ ~output.walkUp) =>
    /\ output.isRel => ComponentPrefix
    /\ output.err = "nil" => ComponentPrefix
    /\ ~ComponentPrefix => output.err = "NotRelative"
    /\ pc = "joined" => ToLower(output.joined) = ToLower(output.p)

=============================================================================
